---- MODULE Spec2Model ----
(***************************************************************************)
(* Template matcher of the ASL finger-spelling recogniser                  *)
(* (backend/classifier_tools/live_hand_tracker.py): the reference library  *)
(* asl_alphabet_data, its loader, the RMS distance and the nearest-letter  *)
(* search with the hand-orientation penalty.                               *)
(*                                                                         *)
(* Python floats are modelled exactly, not rounded:                        *)
(*   - a coordinate, a difference or a sum of squares is a tagged record   *)
(*     that is a finite integer, NaN, +inf or -inf;                        *)
(*   - a distance is NaN, +inf, or the non-negative real sqrt(num/den),    *)
(*     kept as the reduced fraction num/den of its square, so that         *)
(*     math.sqrt, the product with 1.1 and the comparison < are exact.     *)
(*                                                                         *)
(* Pose normalizer (scaling step and rotation step) at its three call      *)
(* sites: the live tool (live_hand_tracker.py), the offline reference      *)
(* builder (aslalphabet/hand_detection.py) and the API (backend/main.py).  *)
(* Its coordinates are exact rationals.                                    *)
(*                                                                         *)
(* Around them: the main loop of the live tool (periodic comparison,       *)
(* drawing of the match, typed text), the POST /predict-letter endpoint of *)
(* the API, the LiveHandTracker instance under two threads, and the        *)
(* gesture detectors of backend/sign_language_model.py.                    *)
(*                                                                         *)
(* Spec follows the matcher, NormSpec the normalizer, LoopSpec the main    *)
(* loop, ApiSpec the endpoint, TrackerSpec the tracker's threads and       *)
(* GestureSpec the gesture detectors.                                      *)
(***************************************************************************)
EXTENDS Integers, Sequences, FiniteSets, TLC

VARIABLES
    asl_alphabet_data,  \* the global dict, as the sequence of its items in insertion order
    pc,                 \* "start": module imported; "loaded": loader has run; "matched": a query
                        \* was matched; "rms": calculate_rms_distance was called on its own;
                        \* "normalized": a frame went through the pose normalizer;
                        \* "compare", "waitKey", "stopped": the main loop before its
                        \* comparison, before its key read, and left; "serving",
                        \* "responded": the API before and after a request; "tracking":
                        \* threads use the tracker; "detected": gestures were detected
    query,              \* live_landmarks_data passed to the last find_closest_asl_match call
    result,             \* the triple that call returned
    rms_args,           \* <<live_landmarks, asl_landmarks>> of a direct calculate_rms_distance call
    rms_result,         \* the distance that call returned
    normalizer,         \* the last frame normalized: the call site, the detected hands,
                        \* and per hand the scaling_info, the scaled landmarks and the
                        \* landmarks after the rotation step
    current_match,      \* main() of the live tool: the letter shown as the match, None at first
    current_distance,   \* its distance
    last_detected_sign, \* the letter of the last change of sign
    match_viz_image,    \* the drawing of the matched reference, NoImage before the first
    detected_text,      \* the text typed so far, a string as the sequence of its characters
    text_history,       \* the list of the strings appended to it
    key,                \* the key read by the last cv2.waitKey
    request,            \* the body of the last POST /predict-letter
    response,           \* what the endpoint answered
    live_tracker,       \* the fields of the LiveHandTracker instance
    writer,             \* a thread inside update(): its position and its arguments
    reader,             \* a thread inside get_data(): its position and the dict it builds
    gesture_input,      \* the landmarks passed to the last _detect_gestures call
    detected_gestures   \* the list that call returned

loopVars == <<current_match, current_distance, last_detected_sign, match_viz_image,
              detected_text, text_history, key>>

apiVars == <<request, response>>

trackerVars == <<live_tracker, writer, reader>>

gestureVars == <<gesture_input, detected_gestures>>

\* the variables outside the matcher and the normalizer
restVars == <<loopVars, apiVars, trackerVars, gestureVars>>

\* the variables the live loop, the endpoint, the tracker's threads and the
\* gesture recognizer leave alone
nonLoopVars == <<rms_args, rms_result, normalizer, apiVars, trackerVars, gestureVars>>
nonApiVars ==
    <<query, result, rms_args, rms_result, normalizer, loopVars, trackerVars, gestureVars>>
nonTrackerVars ==
    <<asl_alphabet_data, query, result, rms_args, rms_result, normalizer, loopVars, apiVars,
      gestureVars>>
nonGestureVars ==
    <<asl_alphabet_data, query, result, rms_args, rms_result, normalizer, loopVars, apiVars,
      trackerVars>>

vars == <<asl_alphabet_data, pc, query, result, rms_args, rms_result, normalizer, restVars>>

(***************************************************************************)
(* Bounds of the model.                                                    *)
(***************************************************************************)
NumLetters == 2         \* asl_letters is cut to its first NumLetters letters
MaxJoints == 2          \* a hand carries 0..MaxJoints landmarks (21 in production data)
MaxText == 2            \* SPACE is followed while text_history has fewer than MaxText entries
MaxUpdates == 2         \* calls of LiveHandTracker.update() followed

(***************************************************************************)
(* Python values.                                                          *)
(***************************************************************************)
None == "None"

Truthy(label) == label # None /\ label # ""

(***************************************************************************)
(* Floats: coordinates and sums.                                           *)
(***************************************************************************)
Fin(v) == [t |-> "fin", v |-> v]
NaN == [t |-> "nan", v |-> 0]
PosInf == [t |-> "inf", v |-> 0]
NegInf == [t |-> "ninf", v |-> 0]

\* a - b
FSub(a, b) ==
    IF a.t = "nan" \/ b.t = "nan" THEN NaN
    ELSE IF a.t = "fin" /\ b.t = "fin" THEN Fin(a.v - b.v)
    ELSE IF a.t = b.t THEN NaN                      \* inf - inf
    ELSE IF a.t = "inf" \/ b.t = "ninf" THEN PosInf
    ELSE NegInf

\* a ** 2
FSquare(a) ==
    IF a.t = "nan" THEN NaN
    ELSE IF a.t = "fin" THEN Fin(a.v * a.v)
    ELSE PosInf

\* a + b
FAdd(a, b) ==
    IF a.t = "nan" \/ b.t = "nan" THEN NaN
    ELSE IF a.t = "fin" /\ b.t = "fin" THEN Fin(a.v + b.v)
    ELSE IF a.t = "fin" THEN b
    ELSE IF b.t = "fin" THEN a
    ELSE IF a.t = b.t THEN a
    ELSE NaN                                        \* inf + -inf

(***************************************************************************)
(* Floats: distances, sqrt(num/den) with num/den reduced.                  *)
(***************************************************************************)
RECURSIVE Gcd(_, _)
Gcd(a, b) == IF b = 0 THEN a ELSE Gcd(b, a % b)

Dist(num, den) ==
    LET g == Gcd(num, den)
    IN  [t |-> "fin", num |-> num \div g, den |-> den \div g]

DNaN == [t |-> "nan", num |-> 0, den |-> 1]
DInf == [t |-> "inf", num |-> 0, den |-> 1]

\* float('inf')
float_inf == DInf

\* math.sqrt(total / n) for a sum of squares total >= 0 and n > 0
SqrtOfMean(total, n) ==
    IF total.t = "nan" THEN DNaN
    ELSE IF total.t = "fin" THEN Dist(total.v, n)
    ELSE DInf

\* d * (pn/pd) for a positive factor pn/pd
DScale(d, pn, pd) ==
    IF d.t = "fin" THEN Dist(d.num * pn * pn, d.den * pd * pd) ELSE d

\* DLess written as a <= b: among equal distances the last one seen wins
DLessOrEqual(a, b) ==
    IF a.t = "nan" \/ b.t = "nan" THEN FALSE
    ELSE IF b.t = "inf" THEN TRUE
    ELSE IF a.t = "inf" THEN FALSE
    ELSE a.num * b.den <= b.num * a.den

\* DLess written as not (a >= b): True as soon as one side is NaN
DLessNotGreaterEqual(a, b) ==
    IF a.t = "nan" \/ b.t = "nan" THEN TRUE
    ELSE IF a.t = "inf" THEN FALSE
    ELSE IF b.t = "inf" THEN TRUE
    ELSE a.num * b.den < b.num * a.den

\* a < b as Python compares floats: False as soon as one side is NaN
DLess(a, b) ==
    IF a.t = "nan" \/ b.t = "nan" THEN FALSE
    ELSE IF a.t = "inf" THEN FALSE
    ELSE IF b.t = "inf" THEN TRUE
    ELSE a.num * b.den < b.num * a.den

(***************************************************************************)
(* The data: landmarks, hands, frames.                                     *)
(***************************************************************************)
Landmark(id, x, y) ==
    [landmark_id |-> id,
     x_raw |-> Fin(0), y_raw |-> Fin(0), z_raw |-> Fin(0),
     x_scaled |-> x, y_scaled |-> y, z_scaled |-> Fin(0)]

Hand(label, points) ==
    [hand_index |-> 0, hand_label |-> label, confidence |-> 1, landmarks |-> points]

\* a dict with a "hands" list; empty = TRUE stands for a falsy value (None or {})
Frame(hands) == [empty |-> FALSE, hands |-> hands]
NoData == [empty |-> TRUE, hands |-> << >>]

(***************************************************************************)
(* calculate_rms_distance(live_landmarks, asl_landmarks)                   *)
(***************************************************************************)
\* SumSquares pairing live joint i with the reference joint counted from the end
RECURSIVE SumSquaresReversed(_, _, _, _)
SumSquaresReversed(live_points, asl_points, i, total) ==
    IF i > Len(live_points) THEN total
    ELSE LET j == Len(asl_points) - i + 1
             distance_squared ==
                 FAdd(FSquare(FSub(live_points[i].x_scaled, asl_points[j].x_scaled)),
                      FSquare(FSub(live_points[i].y_scaled, asl_points[j].y_scaled)))
         IN  SumSquaresReversed(live_points, asl_points, i + 1, FAdd(total, distance_squared))

\* SumSquares taking the reference's x for its y
RECURSIVE SumSquaresWrongAxis(_, _, _, _)
SumSquaresWrongAxis(live_points, asl_points, i, total) ==
    IF i > Len(live_points) THEN total
    ELSE LET distance_squared ==
                 FAdd(FSquare(FSub(live_points[i].x_scaled, asl_points[i].x_scaled)),
                      FSquare(FSub(live_points[i].y_scaled, asl_points[i].x_scaled)))
         IN  SumSquaresWrongAxis(live_points, asl_points, i + 1, FAdd(total, distance_squared))

\* SumSquares comparing x only
RECURSIVE SumSquaresXOnly(_, _, _, _)
SumSquaresXOnly(live_points, asl_points, i, total) ==
    IF i > Len(live_points) THEN total
    ELSE LET distance_squared ==
                 FSquare(FSub(live_points[i].x_scaled, asl_points[i].x_scaled))
         IN  SumSquaresXOnly(live_points, asl_points, i + 1, FAdd(total, distance_squared))

\* the loop over range(len(live_points)), from index i with the running total
RECURSIVE SumSquares(_, _, _, _)
SumSquares(live_points, asl_points, i, total) ==
    IF i > Len(live_points) THEN total
    ELSE LET live_x == live_points[i].x_scaled
             live_y == live_points[i].y_scaled
             asl_x == asl_points[i].x_scaled
             asl_y == asl_points[i].y_scaled
             distance_squared == FAdd(FSquare(FSub(live_x, asl_x)),
                                      FSquare(FSub(live_y, asl_y)))
         IN  SumSquares(live_points, asl_points, i + 1, FAdd(total, distance_squared))

\* calculate_rms_distance answering 0 instead of inf when there is no joint to compare
calculate_rms_distance_zero(live_landmarks, asl_landmarks) ==
    IF live_landmarks = << >> \/ asl_landmarks.empty THEN float_inf
    ELSE IF asl_landmarks.hands = << >> THEN float_inf
    ELSE LET live_points == live_landmarks[1].landmarks
             asl_points == asl_landmarks.hands[1].landmarks
         IN  IF Len(live_points) # Len(asl_points) THEN float_inf
             ELSE SqrtOfMean(SumSquares(live_points, asl_points, 1, Fin(0)),
                             IF Len(live_points) = 0 THEN 1 ELSE Len(live_points))

\* calculate_rms_distance reading the last hand of each side instead of the first
calculate_rms_distance_last_hand(live_landmarks, asl_landmarks) ==
    IF live_landmarks = << >> \/ asl_landmarks.empty THEN float_inf
    ELSE IF asl_landmarks.hands = << >> THEN float_inf
    ELSE LET live_points == live_landmarks[Len(live_landmarks)].landmarks
             asl_points == asl_landmarks.hands[Len(asl_landmarks.hands)].landmarks
             valid_points == Len(live_points)
         IN  IF Len(live_points) # Len(asl_points) THEN float_inf
             ELSE IF valid_points = 0 THEN float_inf
             ELSE SqrtOfMean(SumSquares(live_points, asl_points, 1, Fin(0)), valid_points)

calculate_rms_distance(live_landmarks, asl_landmarks) ==
    IF live_landmarks = << >> \/ asl_landmarks.empty THEN float_inf
    ELSE IF asl_landmarks.hands = << >> THEN float_inf
    ELSE LET live_points == live_landmarks[1].landmarks
             asl_points == asl_landmarks.hands[1].landmarks
             valid_points == Len(live_points)
         IN  IF Len(live_points) # Len(asl_points) THEN float_inf
             ELSE IF valid_points = 0 THEN float_inf
             ELSE SqrtOfMean(SumSquares(live_points, asl_points, 1, Fin(0)), valid_points)

(***************************************************************************)
(* find_closest_asl_match(live_landmarks_data), with the global library    *)
(* passed as lib.                                                          *)
(***************************************************************************)
PenaltyNum == 11        \* the factor 1.1 = 11/10
PenaltyDen == 10

MatchResult(letter, distance, label) ==
    [letter |-> letter, distance |-> distance, hand_label |-> label]

\* AslHandLabel of a reference whose label is never read
AslHandLabelUnread(asl_data) == None

\* the hand label of a reference, None when it has no hand
AslHandLabel(asl_data) ==
    IF asl_data.hands # << >> THEN asl_data.hands[1].hand_label ELSE None

\* AdjustedDistance without the orientation penalty
AdjustedDistanceNoPenalty(live_landmarks_data, asl_data) ==
    calculate_rms_distance(live_landmarks_data.hands, asl_data)

\* the value the loop body compares for one library item
AdjustedDistance(live_landmarks_data, asl_data) ==
    LET live_hand_label == live_landmarks_data.hands[1].hand_label
        asl_hand_label == AslHandLabel(asl_data)
        distance == calculate_rms_distance(live_landmarks_data.hands, asl_data)
    IN  IF Truthy(live_hand_label) /\ Truthy(asl_hand_label)
           /\ live_hand_label # asl_hand_label
        THEN DScale(distance, PenaltyNum, PenaltyDen)
        ELSE distance

\* the loop over asl_alphabet_data.items(), from item i with the best so far
RECURSIVE MatchLoop(_, _, _, _)
MatchLoop(live_landmarks_data, lib, i, best) ==
    IF i > Len(lib) THEN best
    ELSE LET letter == lib[i].letter
             asl_data == lib[i].data
             adjusted_distance == AdjustedDistance(live_landmarks_data, asl_data)
         IN  IF DLess(adjusted_distance, best.distance)
             THEN MatchLoop(live_landmarks_data, lib, i + 1,
                            MatchResult(letter, adjusted_distance, AslHandLabel(asl_data)))
             ELSE MatchLoop(live_landmarks_data, lib, i + 1, best)

\* find_closest_asl_match with best_distance starting at 0 instead of inf
find_closest_asl_match_from_zero(live_landmarks_data, lib) ==
    IF live_landmarks_data.empty \/ live_landmarks_data.hands = << >>
    THEN MatchResult(None, float_inf, None)
    ELSE MatchLoop(live_landmarks_data, lib, 1, MatchResult(None, Dist(0, 1), None))

find_closest_asl_match(live_landmarks_data, lib) ==
    IF live_landmarks_data.empty \/ live_landmarks_data.hands = << >>
    THEN MatchResult(None, float_inf, None)
    ELSE MatchLoop(live_landmarks_data, lib, 1, MatchResult(None, float_inf, None))

(***************************************************************************)
(* load_asl_alphabet_data()                                                *)
(***************************************************************************)
Alphabet == <<"a", "b", "c", "d", "e", "f", "g", "h", "i", "j", "k", "l", "m",
              "n", "o", "p", "q", "r", "s", "t", "u", "v", "w", "x", "y", "z">>

asl_letters == SubSeq(Alphabet, 1, NumLetters)

\* d[key] = value on a dict kept as its item sequence: a present key keeps its place
RECURSIVE DictSet(_, _, _)
DictSet(d, k, value) ==
    IF d = << >> THEN << [letter |-> k, data |-> value] >>
    ELSE IF Head(d).letter = k THEN << [letter |-> k, data |-> value] >> \o Tail(d)
    ELSE << Head(d) >> \o DictSet(Tail(d), k, value)

\* the loop over asl_letters; files[i] is what the disk holds for letter i
RECURSIVE LoadLoop(_, _, _)
LoadLoop(d, files, i) ==
    IF i > Len(asl_letters) THEN d
    ELSE IF files[i].kind = "ok"
         THEN LoadLoop(DictSet(d, asl_letters[i], files[i].data), files, i + 1)
         ELSE LoadLoop(d, files, i + 1)     \* file missing, or json.load raised

(***************************************************************************)
(* The pose normalizer works on finite coordinates; they are kept as exact *)
(* rationals n/d, reduced, with d > 0, so that the padding by 0.1, the     *)
(* division by the box size and the centring are exact.                    *)
(***************************************************************************)
Abs(n) == IF n < 0 THEN -n ELSE n

Rat(n, d) ==
    LET g == Gcd(Abs(n), d)
    IN  [n |-> n \div g, d |-> d \div g]

RInt(k) == [n |-> k, d |-> 1]

Lcm(a, b) == (a \div Gcd(a, b)) * b

RAdd(a, b) ==
    LET l == Lcm(a.d, b.d)
    IN  Rat(a.n * (l \div a.d) + b.n * (l \div b.d), l)

RNeg(a) == [n |-> -a.n, d |-> a.d]

RSub(a, b) == RAdd(a, RNeg(b))

RMul(a, b) ==
    LET g1 == Gcd(Abs(a.n), b.d)
        g2 == Gcd(Abs(b.n), a.d)
    IN  IF a.n = 0 \/ b.n = 0 THEN RInt(0)
        ELSE [n |-> (a.n \div g1) * (b.n \div g2), d |-> (a.d \div g2) * (b.d \div g1)]

\* a / b for b # 0
RDiv(a, b) ==
    RMul(a, IF b.n > 0 THEN [n |-> b.d, d |-> b.n] ELSE [n |-> -b.d, d |-> -b.n])

RLess(a, b) == a.n * b.d < b.n * a.d

\* min(values) and max(values) of a non-empty list
RECURSIVE ListMin(_)
ListMin(values) ==
    IF Len(values) = 1 THEN values[1]
    ELSE LET m == ListMin(Tail(values))
         IN  IF RLess(m, values[1]) THEN m ELSE values[1]

RECURSIVE ListMax(_)
ListMax(values) ==
    IF Len(values) = 1 THEN values[1]
    ELSE LET m == ListMax(Tail(values))
         IN  IF RLess(values[1], m) THEN m ELSE values[1]

(***************************************************************************)
(* The scaling step.  A detected landmark is given by its pixel position   *)
(* (landmark.x * image_width, landmark.y * image_height, landmark.z *      *)
(* image_width).                                                           *)
(***************************************************************************)
target_size == 2000

\* the fixed pad of the live tool for an axis of range 0
ZeroRangePadding == 10

\* range * 0.1
TenPercent(range) == RMul(range, Rat(1, 10))

\* min(scale_x, scale_y) taken as the larger of the two
ScaleFactorMax(scale_x, scale_y) == IF RLess(scale_x, scale_y) THEN scale_y ELSE scale_x

\* min(scale_x, scale_y)
ScaleFactor(scale_x, scale_y) == IF RLess(scale_y, scale_x) THEN scale_y ELSE scale_x

\* scale factor and centring offsets of a padded box, with the two per-axis ratios
ScalingInfo(min_x, max_x, min_y, max_y, scale_x, scale_y) ==
    LET scale_factor == ScaleFactor(scale_x, scale_y)
        scaled_width == RMul(RSub(max_x, min_x), scale_factor)
        scaled_height == RMul(RSub(max_y, min_y), scale_factor)
        offset_x == RDiv(RSub(RInt(target_size), scaled_width), RInt(2))
        offset_y == RDiv(RSub(RInt(target_size), scaled_height), RInt(2))
    IN  [none |-> FALSE,
         min_x |-> min_x, max_x |-> max_x, min_y |-> min_y, max_y |-> max_y,
         scale_x |-> scale_x, scale_y |-> scale_y,
         scale_factor |-> scale_factor,
         offset_x |-> offset_x, offset_y |-> offset_y,
         target_size |-> target_size]

\* the None returned for an empty landmark list
NoScalingInfo ==
    [none |-> TRUE,
     min_x |-> RInt(0), max_x |-> RInt(0), min_y |-> RInt(0), max_y |-> RInt(0),
     scale_x |-> RInt(1), scale_y |-> RInt(1), scale_factor |-> RInt(1),
     offset_x |-> RInt(0), offset_y |-> RInt(0), target_size |-> target_size]

XCoords(landmarks) == [k \in 1..Len(landmarks) |-> landmarks[k].x]
YCoords(landmarks) == [k \in 1..Len(landmarks) |-> landmarks[k].y]

\* target_size / (max - min) if (max - min) > 0 else 1
AxisScale(lo, hi) ==
    IF RLess(RInt(0), RSub(hi, lo)) THEN RDiv(RInt(target_size), RSub(hi, lo)) ELSE RInt(1)

\* the live tool's padding with the offline tool's rule: no pad for a range of 0
LivePaddingTenPercent(range) == TenPercent(range)

\* the live tool: range * 0.1 if range > 0 else 10
LivePadding(range) ==
    IF RLess(RInt(0), range) THEN TenPercent(range) ELSE RInt(ZeroRangePadding)

\* live tool: calculate_edge_to_edge_scaling(landmarks, image_width, image_height)
calculate_edge_to_edge_scaling(landmarks) ==
    IF landmarks = << >> THEN NoScalingInfo
    ELSE LET all_x_coords == XCoords(landmarks)
             all_y_coords == YCoords(landmarks)
             x_range == RSub(ListMax(all_x_coords), ListMin(all_x_coords))
             y_range == RSub(ListMax(all_y_coords), ListMin(all_y_coords))
             padding_x == LivePadding(x_range)
             padding_y == LivePadding(y_range)
             min_x == RSub(ListMin(all_x_coords), padding_x)
             max_x == RAdd(ListMax(all_x_coords), padding_x)
             min_y == RSub(ListMin(all_y_coords), padding_y)
             max_y == RAdd(ListMax(all_y_coords), padding_y)
         IN  ScalingInfo(min_x, max_x, min_y, max_y,
                         AxisScale(min_x, max_x), AxisScale(min_y, max_y))

\* offline tool: the scaling_info of one image, from the landmarks of all its hands
OfflineScalingInfo(landmarks) ==
    LET all_x_coords == XCoords(landmarks)
        all_y_coords == YCoords(landmarks)
        x_range == RSub(ListMax(all_x_coords), ListMin(all_x_coords))
        y_range == RSub(ListMax(all_y_coords), ListMin(all_y_coords))
        padding_x == TenPercent(x_range)
        padding_y == TenPercent(y_range)
        min_x == RSub(ListMin(all_x_coords), padding_x)
        max_x == RAdd(ListMax(all_x_coords), padding_x)
        min_y == RSub(ListMin(all_y_coords), padding_y)
        max_y == RAdd(ListMax(all_y_coords), padding_y)
    IN  ScalingInfo(min_x, max_x, min_y, max_y,
                    AxisScale(min_x, max_x), AxisScale(min_y, max_y))

\* API: target_size / (max - min) if max != min else 1.0
ApiAxisScale(lo, hi) ==
    IF hi # lo THEN RDiv(RInt(target_size), RSub(hi, lo)) ELSE RInt(1)

\* API: the scaling_info process_landmarks_for_classifier builds from one hand
ApiScalingInfo(landmarks) ==
    LET all_x_coords == XCoords(landmarks)
        all_y_coords == YCoords(landmarks)
        min_x == ListMin(all_x_coords)
        max_x == ListMax(all_x_coords)
        min_y == ListMin(all_y_coords)
        max_y == ListMax(all_y_coords)
    IN  ScalingInfo(min_x, max_x, min_y, max_y,
                    ApiAxisScale(min_x, max_x), ApiAxisScale(min_y, max_y))

\* (raw - min) * scale_factor + offset
ScaleCoord(raw, lo, scale_factor, offset) == RAdd(RMul(RSub(raw, lo), scale_factor), offset)

(***************************************************************************)
(* The rotation step.  With h = hypot(dx, dy) > 0,                         *)
(*   cos(-pi/2 - atan2(dy, dx)) = -sin(atan2(dy, dx)) = -dy / h            *)
(*   sin(-pi/2 - atan2(dy, dx)) = -cos(atan2(dy, dx)) = -dx / h            *)
(* and dx / h, dy / h depend on the direction of (dx, dy) only.  The model *)
(* follows poses whose wrist-to-joint-9 vector has a rational length, for  *)
(* which both values are rationals.                                        *)
(***************************************************************************)
WristX == 1000
WristY == 2000

\* the direction of (dx, dy) # (0, 0) as a pair of coprime integers
Direction(dx, dy) ==
    LET l == Lcm(dx.d, dy.d)
        p == dx.n * (l \div dx.d)
        q == dy.n * (l \div dy.d)
        g == Gcd(Abs(p), Abs(q))
    IN  <<p \div g, q \div g>>

\* the integer square root of a perfect square
Isqrt(n) == CHOOSE k \in 0..n : k * k = n

Hypot(v) == Isqrt(v[1] * v[1] + v[2] * v[2])

\* math.cos(rotation_to_vertical)
cos_angle(dx, dy) == LET v == Direction(dx, dy) IN Rat(-v[2], Hypot(v))

\* sin_angle with the sign of a rotation to "straight down"
sin_angle_down(dx, dy) == LET v == Direction(dx, dy) IN Rat(v[1], Hypot(v))

\* math.sin(rotation_to_vertical)
sin_angle(dx, dy) == LET v == Direction(dx, dy) IN Rat(-v[1], Hypot(v))

\* index of the last landmark of ids[1..k] carrying that landmark_id, 0 for none
RECURSIVE LastWithId(_, _, _)
LastWithId(landmarks_data, id, k) ==
    IF k = 0 THEN 0
    ELSE IF landmarks_data[k].landmark_id = id THEN k
    ELSE LastWithId(landmarks_data, id, k - 1)

\* <<rotated_x, rotated_y>> of one landmark about the wrist
Rotated(landmark, wrist_x, wrist_y, c, s) ==
    LET rel_x == RSub(landmark.x_scaled, wrist_x)
        rel_y == RSub(landmark.y_scaled, wrist_y)
    IN  <<RSub(RMul(rel_x, c), RMul(rel_y, s)), RAdd(RMul(rel_x, s), RMul(rel_y, c))>>

\* MoveAll that also brings the depth to the wrist's level
MoveAllFlattensZ(landmarks_data, wrist_x, wrist_y, c, s, to_x, to_y) ==
    [k \in 1..Len(landmarks_data) |->
        LET r == Rotated(landmarks_data[k], wrist_x, wrist_y, c, s)
        IN  [landmarks_data[k] EXCEPT !.x_scaled = RAdd(r[1], RInt(to_x)),
                                      !.y_scaled = RAdd(r[2], RInt(to_y)),
                                      !.z_scaled = RInt(0)]]

\* the loop writing the rotated and re-translated position into every landmark
MoveAll(landmarks_data, wrist_x, wrist_y, c, s, to_x, to_y) ==
    [k \in 1..Len(landmarks_data) |->
        LET r == Rotated(landmarks_data[k], wrist_x, wrist_y, c, s)
        IN  [landmarks_data[k] EXCEPT !.x_scaled = RAdd(r[1], RInt(to_x)),
                                      !.y_scaled = RAdd(r[2], RInt(to_y))]]

\* normalize_hand_rotation moving a wrist that coincides with joint 9 to (1000, 2000)
normalize_hand_rotation_always_moves(landmarks_data) ==
    LET w == LastWithId(landmarks_data, 0, Len(landmarks_data))
        t == LastWithId(landmarks_data, 9, Len(landmarks_data))
    IN  IF w = 0 \/ t = 0 THEN landmarks_data
        ELSE LET wrist_x == landmarks_data[w].x_scaled
                 wrist_y == landmarks_data[w].y_scaled
                 dx == RSub(landmarks_data[t].x_scaled, wrist_x)
                 dy == RSub(landmarks_data[t].y_scaled, wrist_y)
             IN  IF dx = RInt(0) /\ dy = RInt(0)
                 THEN MoveAll(landmarks_data, wrist_x, wrist_y, RInt(1), RInt(0),
                              WristX, WristY)
                 ELSE MoveAll(landmarks_data, wrist_x, wrist_y,
                              cos_angle(dx, dy), sin_angle(dx, dy), WristX, WristY)

\* normalize_hand_rotation putting the wrist at the centre (1000, 1000)
normalize_hand_rotation_to_centre(landmarks_data) ==
    LET w == LastWithId(landmarks_data, 0, Len(landmarks_data))
        t == LastWithId(landmarks_data, 9, Len(landmarks_data))
    IN  IF w = 0 \/ t = 0 THEN landmarks_data
        ELSE LET wrist_x == landmarks_data[w].x_scaled
                 wrist_y == landmarks_data[w].y_scaled
                 dx == RSub(landmarks_data[t].x_scaled, wrist_x)
                 dy == RSub(landmarks_data[t].y_scaled, wrist_y)
             IN  IF dx = RInt(0) /\ dy = RInt(0) THEN landmarks_data
                 ELSE MoveAll(landmarks_data, wrist_x, wrist_y,
                              cos_angle(dx, dy), sin_angle(dx, dy), WristX, WristX)

\* live tool and API: normalize_hand_rotation(landmarks_data)
normalize_hand_rotation(landmarks_data) ==
    LET w == LastWithId(landmarks_data, 0, Len(landmarks_data))
        t == LastWithId(landmarks_data, 9, Len(landmarks_data))
    IN  IF w = 0 \/ t = 0 THEN landmarks_data
        ELSE LET wrist_x == landmarks_data[w].x_scaled
                 wrist_y == landmarks_data[w].y_scaled
                 index_x == landmarks_data[t].x_scaled
                 index_y == landmarks_data[t].y_scaled
                 dx == RSub(index_x, wrist_x)
                 dy == RSub(index_y, wrist_y)
             IN  IF dx = RInt(0) /\ dy = RInt(0) THEN landmarks_data
                 ELSE MoveAll(landmarks_data, wrist_x, wrist_y,
                              cos_angle(dx, dy), sin_angle(dx, dy), WristX, WristY)

\* offline tool: the loop, which also writes the rotated position into
\* relative_to_wrist_scaled
OfflineMoveAll(landmarks_data, wrist_x, wrist_y, c, s) ==
    [k \in 1..Len(landmarks_data) |->
        LET r == Rotated(landmarks_data[k], wrist_x, wrist_y, c, s)
        IN  [landmarks_data[k] EXCEPT !.x_scaled = RAdd(r[1], RInt(WristX)),
                                      !.y_scaled = RAdd(r[2], RInt(WristY)),
                                      !.relative_to_wrist_scaled.x = r[1],
                                      !.relative_to_wrist_scaled.y = r[2]]]

\* offline tool: normalize_hand_rotation(landmarks_data) of hand_detection.py
hand_detection_normalize_hand_rotation(landmarks_data) ==
    LET w == LastWithId(landmarks_data, 0, Len(landmarks_data))
        t == LastWithId(landmarks_data, 9, Len(landmarks_data))
    IN  IF w = 0 \/ t = 0 THEN landmarks_data
        ELSE LET wrist_x == landmarks_data[w].x_scaled
                 wrist_y == landmarks_data[w].y_scaled
                 index_x == landmarks_data[t].x_scaled
                 index_y == landmarks_data[t].y_scaled
                 dx == RSub(index_x, wrist_x)
                 dy == RSub(index_y, wrist_y)
             IN  IF dx = RInt(0) /\ dy = RInt(0) THEN landmarks_data
                 ELSE OfflineMoveAll(landmarks_data, wrist_x, wrist_y,
                                     cos_angle(dx, dy), sin_angle(dx, dy))

(***************************************************************************)
(* The three call sites of the normalizer.                                 *)
(***************************************************************************)
\* mp.solutions.hands.HandLandmark(idx).name for the joints followed
HandLandmarkName(idx) ==
    CASE idx = 0 -> "WRIST"
      [] idx = 5 -> "INDEX_FINGER_MCP"
      [] idx = 9 -> "MIDDLE_FINGER_MCP"
      [] idx = 12 -> "MIDDLE_FINGER_TIP"
      [] OTHER -> "OTHER"

\* live tool: the landmarks_data list of process_landmarks before the rotation step
LiveScaled(hand_landmarks, scaling_info) ==
    [k \in 1..Len(hand_landmarks) |->
        LET x_raw == hand_landmarks[k].x
            y_raw == hand_landmarks[k].y
            z_raw == hand_landmarks[k].z
            scaled == ~scaling_info.none
        IN  [landmark_id |-> hand_landmarks[k].idx,
                 landmark_name |-> HandLandmarkName(hand_landmarks[k].idx),
             x_raw |-> x_raw, y_raw |-> y_raw, z_raw |-> z_raw,
             x_scaled |-> IF scaled
                          THEN ScaleCoord(x_raw, scaling_info.min_x,
                                          scaling_info.scale_factor, scaling_info.offset_x)
                          ELSE x_raw,
             y_scaled |-> IF scaled
                          THEN ScaleCoord(y_raw, scaling_info.min_y,
                                          scaling_info.scale_factor, scaling_info.offset_y)
                          ELSE y_raw,
             z_scaled |-> IF scaled THEN RMul(z_raw, scaling_info.scale_factor) ELSE z_raw]]

\* live tool: process_landmarks(hand_landmarks, ..., scaling_info)
process_landmarks(hand_landmarks, scaling_info) ==
    normalize_hand_rotation(LiveScaled(hand_landmarks, scaling_info))

\* offline tool: the landmarks list of one hand before the rotation step; the
\* detector lists the wrist (idx 0) first
OfflineScaled(hand_landmarks, scaling_info) ==
    LET scale_factor == scaling_info.scale_factor
        sx(k) == ScaleCoord(hand_landmarks[k].x, scaling_info.min_x, scale_factor,
                            scaling_info.offset_x)
        sy(k) == ScaleCoord(hand_landmarks[k].y, scaling_info.min_y, scale_factor,
                            scaling_info.offset_y)
        sz(k) == RMul(hand_landmarks[k].z, scale_factor)
    IN  [k \in 1..Len(hand_landmarks) |->
            [landmark_id |-> hand_landmarks[k].idx,
                 landmark_name |-> HandLandmarkName(hand_landmarks[k].idx),
             x_original |-> hand_landmarks[k].x,
             y_original |-> hand_landmarks[k].y,
             z_original |-> hand_landmarks[k].z,
             x_scaled |-> sx(k), y_scaled |-> sy(k), z_scaled |-> sz(k),
             relative_to_wrist_original |->
                 [x |-> RSub(hand_landmarks[k].x, hand_landmarks[1].x),
                  y |-> RSub(hand_landmarks[k].y, hand_landmarks[1].y),
                  z |-> RSub(hand_landmarks[k].z, hand_landmarks[1].z)],
             relative_to_wrist_scaled |->
                 [x |-> RSub(sx(k), sx(1)), y |-> RSub(sy(k), sy(1)),
                  z |-> RSub(sz(k), sz(1))]]]

\* offline tool: the landmarks stored for one hand
OfflineLandmarks(hand_landmarks, scaling_info) ==
    hand_detection_normalize_hand_rotation(OfflineScaled(hand_landmarks, scaling_info))

\* API: the landmarks_data list of process_landmarks_for_classifier before rotation
ApiScaled(hand_landmarks) ==
    LET scaling_info == ApiScalingInfo(hand_landmarks)
    IN  [k \in 1..Len(hand_landmarks) |->
            LET x_raw == hand_landmarks[k].x
                y_raw == hand_landmarks[k].y
                z_raw == hand_landmarks[k].z
            IN  [landmark_id |-> hand_landmarks[k].idx,
                 landmark_name |-> HandLandmarkName(hand_landmarks[k].idx),
                 x_raw |-> x_raw, y_raw |-> y_raw, z_raw |-> z_raw,
                 x_scaled |-> ScaleCoord(x_raw, scaling_info.min_x,
                                         scaling_info.scale_factor, scaling_info.offset_x),
                 y_scaled |-> ScaleCoord(y_raw, scaling_info.min_y,
                                         scaling_info.scale_factor, scaling_info.offset_y),
                 z_scaled |-> RMul(z_raw, scaling_info.scale_factor)]]

\* API: process_landmarks_for_classifier(hand_data, image_width, image_height)
process_landmarks_for_classifier(hand_landmarks) ==
    normalize_hand_rotation(ApiScaled(hand_landmarks))

\* the list a call site passes to the rotation step, as the call leaves it: the
\* step assigns into the dicts of that list and returns that list
PassedAfter(site, landmarks_data) ==
    IF site = "offline" THEN hand_detection_normalize_hand_rotation(landmarks_data)
    ELSE normalize_hand_rotation(landmarks_data)

\* all_landmarks: the landmarks of all hands of a frame, in order
RECURSIVE AllLandmarks(_)
AllLandmarks(hands) ==
    IF hands = << >> THEN << >> ELSE Head(hands) \o AllLandmarks(Tail(hands))

(***************************************************************************)
(* Inputs.                                                                 *)
(***************************************************************************)
\* sequences over S of length 0..n
SeqsUpTo(S, n) == UNION {[1..k -> S] : k \in 0..n}

\* points (x_scaled, y_scaled): from A, B is at squared distance 9 and C at 10,
\* so that 1.1 * |AB| > |AC| > |AB|
A == <<Fin(0), Fin(0)>>
B == <<Fin(3), Fin(0)>>
C == <<Fin(3), Fin(1)>>
BadNaN == <<NaN, Fin(0)>>
BadInf == <<Fin(0), PosInf>>

HandLabels == {"Left", "Right"}

PointsToLandmarks(ps) == [i \in 1..Len(ps) |-> Landmark(i - 1, ps[i][1], ps[i][2])]

HandsOver(labels, points, n) ==
    {Hand(l, PointsToLandmarks(ps)) : l \in labels, ps \in SeqsUpTo(points, n)}

\* The library search is explored with hands one joint shorter than the
\* distance function, which is explored on its own with MaxJoints joints.
MatchJoints == MaxJoints - 1

RefPoints == {B, C}
QueryPoints == {A, B, BadNaN, BadInf}

RefData == {Frame(<<h>>) : h \in HandsOver(HandLabels, RefPoints, MatchJoints)}
           \cup {Frame(<< >>)}

FileStates == {[kind |-> "ok", data |-> d] : d \in RefData}
              \cup {[kind |-> "missing", data |-> NoData], [kind |-> "corrupt", data |-> NoData]}

\* further hands of a frame, detected after the first
ExtraHands == {Hand("Left", PointsToLandmarks(<<B>>)),
               Hand("Right", PointsToLandmarks(<<C>>)),
               Hand(None, << >>)}

FirstHands == {Hand("Left", PointsToLandmarks(<<p>>)) : p \in {A, B}}

TwoHandQueries == {Frame(<<h, e>>) : h \in FirstHands, e \in ExtraHands}

Queries == {Frame(<<h>>) : h \in HandsOver(HandLabels \cup {None}, QueryPoints, MatchJoints)}
           \cup {Frame(<< >>), NoData}
           \cup TwoHandQueries

RmsPoints == {A, B, C, BadNaN, BadInf}
RmsHands == HandsOver({"Left"}, RmsPoints, MaxJoints)
RmsLive == {<<h>> : h \in RmsHands} \cup {<< >>}
RmsAsl == {Frame(<<h>>) : h \in RmsHands} \cup {Frame(<< >>), NoData}

NoCall == MatchResult("NoCall", DNaN, "NoCall")

\* The joints of a hand that the normalizer is followed on: the wrist, joint 9 and
\* joint 12; the other joints of the 21 lie inside the box of these.
JointIds == <<0, 9, 12>>
DetectorIds == SubSeq(JointIds, 1, MaxJoints)

RawLandmark(idx, x, y) == [idx |-> idx, x |-> RInt(x), y |-> RInt(y), z |-> RInt(-2)]

\* pixel positions of the wrist, and of the other joints relative to the wrist;
\* joint 9 is on the wrist, or away from it along an axis or along a 3-4-5 triangle
Wrists == {<<0, 0>>, <<10, 5>>}
Vec9 == {<<0, 0>>, <<5, 0>>, <<0, 5>>, <<0, -5>>, <<-5, 0>>, <<10, 0>>,
         <<3, 4>>, <<-4, 3>>, <<4, -3>>}
Vec12 == {<<5, 5>>, <<-5, 0>>}

OffsetLists ==
    {o \in [1..(MaxJoints - 1) -> Vec9 \cup Vec12] :
        o[1] \in Vec9 /\ \A k \in 2..(MaxJoints - 1) : o[k] \in Vec12}

RawHand(ids, w, o) ==
    [k \in 1..MaxJoints |->
        IF k = 1 THEN RawLandmark(ids[1], w[1], w[2])
        ELSE RawLandmark(ids[k], w[1] + o[k - 1][1], w[2] + o[k - 1][2])]

RawHands(ids, wrists, vec9) ==
    {RawHand(ids, w, o) : w \in wrists, o \in {l \in OffsetLists : l[1] \in vec9}}

\* what the detector returns for a frame: no hand, one hand or two hands
DetectedHands == RawHands(DetectorIds, Wrists, Vec9)
SecondHands == RawHands(DetectorIds, {<<10, 5>>}, {<<0, 5>>, <<5, 0>>})
RawFrames ==
    {<< >>} \cup {<<h>> : h \in DetectedHands}
    \cup {<<h, g>> : h \in RawHands(DetectorIds, {<<0, 0>>}, Vec9), g \in SecondHands}

\* the landmark_id lists of a request: the client chooses them
ApiIdLists ==
    {ids \o [k \in 1..(MaxJoints - 2) |-> 12] : ids \in {<<0, 9>>, <<0, 5>>, <<5, 9>>}}
ApiRequests ==
    {<<h>> : h \in UNION {RawHands(ids, Wrists, Vec9) : ids \in ApiIdLists}}
    \cup {<<h, g>> : h \in RawHands(DetectorIds, {<<0, 0>>}, Vec9), g \in SecondHands}

NotNormalized ==
    [site |-> "none", raw |-> << >>, scaling |-> << >>, scaled |-> << >>, hands |-> << >>,
     passed |-> << >>]

(***************************************************************************)
(* The live tool's drawing and its main loop.                              *)
(***************************************************************************)
\* what create_landmark_visualization draws for one landmark
Circle(landmark) ==
    [x |-> landmark.x_scaled, y |-> landmark.y_scaled, text |-> landmark.landmark_id]

\* a drawing, as the circles of each hand; NoImage is the None a drawing variable
\* holds before the first drawing
Image(circles) == [none |-> FALSE, circles |-> circles]
NoImage == [none |-> TRUE, circles |-> << >>]

\* landmark.copy() with x_scaled mirrored in the copy
Mirrored(landmark) ==
    [landmark EXCEPT !.x_scaled = FSub(Fin(target_size), landmark.x_scaled)]

\* create_landmark_visualization mirroring every Left hand in the landmarks it is given
create_landmark_visualization_in_place(landmarks_data, is_match) ==
    LET mirrored == [h \in 1..Len(landmarks_data.hands) |->
                        IF landmarks_data.hands[h].hand_label = "Left"
                        THEN [landmarks_data.hands[h] EXCEPT
                                  !.landmarks = [k \in 1..Len(@) |-> Mirrored(@[k])]]
                        ELSE landmarks_data.hands[h]]
    IN  [image |-> Image([h \in 1..Len(mirrored) |->
                       [k \in 1..Len(mirrored[h].landmarks) |->
                           Circle(mirrored[h].landmarks[k])]]),
         landmarks_data |-> [landmarks_data EXCEPT !.hands = mirrored]]

\* create_landmark_visualization(landmarks_data, is_match=...): the circles drawn,
\* hand by hand, and landmarks_data as the call leaves it.  The landmarks of a
\* Left hand that is not a match are mirrored in copies.
create_landmark_visualization(landmarks_data, is_match) ==
    LET drawn(hand) ==
            IF hand.hand_label = "Left" /\ ~is_match
            THEN [k \in 1..Len(hand.landmarks) |-> Mirrored(hand.landmarks[k])]
            ELSE hand.landmarks
    IN  [image |-> Image([h \in 1..Len(landmarks_data.hands) |->
                       [k \in 1..Len(drawn(landmarks_data.hands[h])) |->
                           Circle(drawn(landmarks_data.hands[h])[k])]]),
         landmarks_data |-> landmarks_data]

\* the dict with asl_alphabet_data[letter] replaced
LibraryWith(lib, letter, data) ==
    [i \in 1..Len(lib) |-> IF lib[i].letter = letter
                           THEN [lib[i] EXCEPT !.data = data] ELSE lib[i]]

\* asl_alphabet_data[letter]
LibraryData(lib, letter) ==
    lib[CHOOSE i \in 1..Len(lib) : lib[i].letter = letter].data

InLibrary(lib, letter) == \E i \in 1..Len(lib) : lib[i].letter = letter

\* text[:-1]
DropLast(text) == SubSeq(text, 1, Len(text) - 1)

\* the 'b' branch leaving text_history as it is
BackspaceTextOnly(text, history) ==
    IF text # << >> THEN [detected_text |-> DropLast(text), text_history |-> history]
    ELSE [detected_text |-> text, text_history |-> history]

\* the 'b' branch: detected_text loses its last character, text_history its last entry
Backspace(text, history) ==
    IF text # << >>
    THEN [detected_text |-> DropLast(text),
          text_history |-> IF history # << >> THEN DropLast(history) ELSE history]
    ELSE [detected_text |-> text, text_history |-> history]

UpperAlphabet == <<"A", "B", "C", "D", "E", "F", "G", "H", "I", "J", "K", "L", "M",
                   "N", "O", "P", "Q", "R", "S", "T", "U", "V", "W", "X", "Y", "Z">>

\* the characters of a library key, each key of asl_letters being one character
Chars(letter) == << letter >>

\* str.upper(), character by character
upper(str) ==
    [i \in 1..Len(str) |->
        IF \E j \in 1..Len(Alphabet) : Alphabet[j] = str[i]
        THEN UpperAlphabet[CHOOSE j \in 1..Len(Alphabet) : Alphabet[j] = str[i]]
        ELSE str[i]]

NoKey == "none"

\* what the disk holds for a letter when the live tool starts, and the frames the
\* tracker hands to the comparison
LoopFileStates ==
    {[kind |-> "ok", data |-> Frame(<<Hand("Left", PointsToLandmarks(<<B>>))>>)],
     [kind |-> "ok", data |-> Frame(<<Hand("Right", PointsToLandmarks(<<C>>))>>)],
     [kind |-> "missing", data |-> NoData]}

LoopQueries ==
    {Frame(<<Hand("Left", PointsToLandmarks(<<B>>))>>),
     Frame(<<Hand("Right", PointsToLandmarks(<<C>>))>>),
     Frame(<< >>)}

(***************************************************************************)
(* The API: POST /predict-letter.                                          *)
(***************************************************************************)
\* a coordinate of a request is a rational, or NaN, +inf or -inf, written n/0
RNaN == [n |-> 0, d |-> 0]
RPosInf == [n |-> 1, d |-> 0]
RNegInf == [n |-> -1, d |-> 0]

isfinite(x) == x.d # 0

\* the floats of a response, whole + sign * sqrt(num / den): a distance is
\* 0 + sqrt(num / den), and 1.0 - distance / 1000.0 is 1 - sqrt(num / (den * 10^6))
Whole(v) == [t |-> "fin", whole |-> v, sign |-> 1, num |-> 0, den |-> 1]
FromDist(d) == [t |-> d.t, whole |-> 0, sign |-> 1, num |-> d.num, den |-> d.den]

SentinelDistance == 999999
max_expected_distance == 1000

\* Optional[str]
NoString == [none |-> TRUE, str |-> << >>]
Some(str) == [none |-> FALSE, str |-> str]

PredictionResponse(success, predicted_letter, confidence, distance, hand_label, message) ==
    [status |-> 200, success |-> success, predicted_letter |-> predicted_letter,
     confidence |-> confidence, distance |-> distance, hand_label |-> hand_label,
     message |-> message]

\* FailureResponse with the distance of the matcher's no-match triple
FailureResponseInf(message) ==
    PredictionResponse(FALSE, NoString, Whole(0), FromDist(float_inf), None, message)

\* the response of every early return
FailureResponse(message) ==
    PredictionResponse(FALSE, NoString, Whole(0), Whole(SentinelDistance), None, message)

NoRequest == [hands |-> << >>, sent |-> FALSE]
NoResponse ==
    [status |-> 0, success |-> FALSE, predicted_letter |-> NoString,
     confidence |-> Whole(0), distance |-> Whole(0), hand_label |-> None, message |-> ""]

\* the landmark count of a complete hand: 21 in the code
FullHand == MaxJoints

Coords(landmark) ==
    {landmark.x, landmark.y, landmark.z,
     landmark.x_scaled, landmark.y_scaled, landmark.z_scaled}

\* the validation loop from hand i on: the message of the first failure, "" if none
RECURSIVE ValidationFailure(_, _)
ValidationFailure(hands, i) ==
    IF i > Len(hands) THEN ""
    ELSE IF hands[i].landmarks = << >> \/ Len(hands[i].landmarks) # FullHand
    THEN "Invalid landmark count"
    ELSE IF \E k \in 1..Len(hands[i].landmarks) :
                \E c \in Coords(hands[i].landmarks[k]) : ~isfinite(c)
    THEN "Invalid landmark coordinates detected"
    ELSE ValidationFailure(hands, i + 1)

\* float(x) of a scaled coordinate; the requests followed have whole ones
ToFloat(x) == Fin(x.n \div x.d)

\* hand_dict: the hand of the request with its landmarks scaled and rotated
HandDict(hand) ==
    LET processed_landmarks == process_landmarks_for_classifier(hand.landmarks)
    IN  [hand_index |-> hand.hand_index, hand_label |-> hand.hand_label,
         confidence |-> hand.confidence,
         landmarks |-> [k \in 1..Len(processed_landmarks) |->
                           Landmark(processed_landmarks[k].landmark_id,
                                    ToFloat(processed_landmarks[k].x_scaled),
                                    ToFloat(processed_landmarks[k].y_scaled))]]

\* the landmarks_data dict handed to find_closest_asl_match
RequestLandmarksData(req) == Frame([h \in 1..Len(req.hands) |-> HandDict(req.hands[h])])

\* the confidence without the clamp to [0, 1]
ConfidenceUnclamped(best_distance) ==
    [t |-> "fin", whole |-> 1, sign |-> -1,
     num |-> Dist(best_distance.num, best_distance.den * 1000000).num,
     den |-> Dist(best_distance.num, best_distance.den * 1000000).den]

\* max(0.0, min(1.0, 1.0 - (best_distance / max_expected_distance)))
Confidence(best_distance) ==
    IF best_distance.whole >= max_expected_distance THEN Whole(0)
    ELSE IF best_distance.num >=
                max_expected_distance * max_expected_distance * best_distance.den
    THEN Whole(0)
    ELSE IF best_distance.num = 0 /\ best_distance.whole = 0 THEN Whole(1)
    ELSE LET ratio == Dist(best_distance.num, best_distance.den * 1000000)
         IN  [t |-> "fin", whole |-> 1, sign |-> -1, num |-> ratio.num, den |-> ratio.den]

ensure_finite(value) == IF value.t = "fin" THEN value ELSE Whole(0)

\* predict_letter_from_landmarks(request) against the library lib
predict_letter_from_landmarks(req, lib) ==
    IF req.hands = << >> THEN FailureResponse("No hand data provided")
    ELSE IF ValidationFailure(req.hands, 1) # ""
    THEN FailureResponse(ValidationFailure(req.hands, 1))
    ELSE LET best == find_closest_asl_match(RequestLandmarksData(req), lib)
             best_distance == IF best.distance.t # "fin" THEN Whole(SentinelDistance)
                              ELSE FromDist(best.distance)
         IN  IF best.letter = None THEN FailureResponse("No ASL letter match found")
             ELSE PredictionResponse(TRUE, Some(upper(Chars(best.letter))),
                                     ensure_finite(Confidence(best_distance)),
                                     ensure_finite(best_distance),
                                     req.hands[1].hand_label,
                                     "Successfully predicted letter")

\* the references on disk when the API is imported: poses as the offline builder
\* leaves them, wrist at (1000, 2000), joint 9 above it at height y9
EndpointReference(y9) ==
    Frame(<<Hand("Right", [k \in 1..FullHand |->
                              Landmark(JointIds[k], Fin(WristX),
                                       Fin(IF k = 2 THEN y9 ELSE WristY))])>>)

EndpointFileStates ==
    {[kind |-> "ok", data |-> EndpointReference(1995)],
     [kind |-> "ok", data |-> EndpointReference(-500)],
     [kind |-> "missing", data |-> NoData]}

\* a landmark of a request: the raw position and the client's own scaled values
RequestLandmark(lm) ==
    [idx |-> lm.idx, x |-> lm.x, y |-> lm.y, z |-> lm.z,
     x_scaled |-> lm.x, y_scaled |-> lm.y, z_scaled |-> lm.z]

RequestHand(label, landmarks) ==
    [hand_index |-> 0, hand_label |-> label, confidence |-> 1,
     landmarks |-> [k \in 1..Len(landmarks) |-> RequestLandmark(landmarks[k])]]

\* complete hands whose scaled and rotated coordinates are whole numbers
WholeHands ==
    {h \in RawHands(DetectorIds, {<<0, 0>>}, Vec9) :
        \A k \in 1..Len(h) :
            /\ process_landmarks_for_classifier(h)[k].x_scaled.d = 1
            /\ process_landmarks_for_classifier(h)[k].y_scaled.d = 1}

ValidHands == {RequestHand(l, h) : l \in {"Right", ""}, h \in WholeHands}

ShortHands ==
    {[h EXCEPT !.landmarks = SubSeq(@, 1, n)] : h \in ValidHands, n \in {0, FullHand - 1}}

LongHands == {[h EXCEPT !.landmarks = @ \o << @[1] >>] : h \in ValidHands}

BadCoordinate == {RNaN, RPosInf, RNegInf}

\* a complete hand with one coordinate that is not finite
NonFiniteHands ==
    LET base == RequestHand("Right", RawHand(DetectorIds, <<0, 0>>,
                                             [k \in 1..(MaxJoints - 1) |-> <<3, 4>>]))
    IN  UNION {{[base EXCEPT !.landmarks[k].x = c],
                [base EXCEPT !.landmarks[k].z = c],
                [base EXCEPT !.landmarks[k].y_scaled = c]} :
               k \in {1, FullHand}, c \in BadCoordinate}

MalformedHands == ShortHands \cup LongHands \cup NonFiniteHands

SecondRequestHands ==
    {h \in ValidHands : h.hand_label = "Right"}
    \cup {h \in MalformedHands : h.hand_label = "Right"}

Requests ==
    {[hands |-> hs, sent |-> TRUE] :
        hs \in {<< >>} \cup {<<h>> : h \in ValidHands \cup MalformedHands}
               \cup {<<h, g>> : h \in {v \in ValidHands : v.hand_label = "Right"},
                                g \in SecondRequestHands}}

(***************************************************************************)
(* LiveHandTracker with a thread in update() and a thread in get_data().   *)
(* The u-th call of update() passes the hands of frame u; a hands list, a  *)
(* scaling_info and a timestamp are named by the number of their frame,    *)
(* and 0 stands for None.                                                  *)
(***************************************************************************)
\* LiveHandTracker.__init__
LiveHandTracker ==
    [landmarks_data |-> 0, scaling_info |-> 0, timestamp |-> 0, hands_detected |-> 0,
     image_width |-> 640, image_height |-> 480, lock |-> FALSE]

\* len(hands_data) of frame u: one hand, or two
HandsIn(u) == 1 + (u % 2)

\* the assignments of update(), in order
UpdateAssignment(tracker, step, u) ==
    CASE step = 1 -> [tracker EXCEPT !.landmarks_data = u]
      [] step = 2 -> [tracker EXCEPT !.scaling_info = u]
      [] step = 3 -> [tracker EXCEPT !.timestamp = u]
      [] step = 4 -> [tracker EXCEPT !.hands_detected = HandsIn(u)]
      [] step = 5 -> [tracker EXCEPT !.image_width = 640]
      [] step = 6 -> [tracker EXCEPT !.image_height = 480]

UpdateSteps == 6

NoSnapshot ==
    [timestamp |-> 0, image_width |-> 0, image_height |-> 0, hands_detected |-> 0,
     scaling_info |-> 0, hands |-> 0]

\* the items of the dict get_data() builds, read in the order they are written
GetDataRead(data, step, tracker) ==
    CASE step = 1 -> [data EXCEPT !.timestamp = tracker.timestamp]
      [] step = 2 -> [data EXCEPT !.image_width = tracker.image_width]
      [] step = 3 -> [data EXCEPT !.image_height = tracker.image_height]
      [] step = 4 -> [data EXCEPT !.hands_detected = tracker.hands_detected]
      [] step = 5 -> [data EXCEPT !.scaling_info = tracker.scaling_info]
      [] step = 6 -> [data EXCEPT !.hands = tracker.landmarks_data]

GetDataSteps == 6

(***************************************************************************)
(* SignLanguageRecognizer: the gesture detectors.  Landmark coordinates    *)
(* are in hundredths of the frame, confidences in tenths.                  *)
(***************************************************************************)
\* self.sign_gestures, in insertion order
sign_gestures == <<"hello", "thank_you", "yes", "no", "please", "sorry", "help", "good",
                   "bad", "love">>

DetectionThreshold == 6

\* the landmark indices a detector reads; landmarks[i] raises IndexError when
\* the list is shorter
LandmarksRead(gesture_name) ==
    CASE gesture_name = "hello" -> {0, 12, 8}
      [] gesture_name = "thank_you" -> {0, 12}
      [] gesture_name = "yes" -> {4, 8}
      [] gesture_name = "no" -> {12, 16}
      [] gesture_name = "please" -> {0, 12}
      [] gesture_name = "sorry" -> {0}
      [] gesture_name = "help" -> {0, 12}
      [] gesture_name = "good" -> {4, 3}
      [] gesture_name = "bad" -> {4, 3}
      [] gesture_name = "love" -> {12, 16}

DetectorRaises(gesture_name, landmarks) ==
    \E i \in LandmarksRead(gesture_name) : i >= Len(landmarks)

\* the value a detector returns when it does not raise
DetectorConfidence(gesture_name, landmarks) ==
    LET wrist == landmarks[1]
        thumb_ip == landmarks[4]
        thumb_tip == landmarks[5]
        index_tip == landmarks[9]
        middle_tip == landmarks[13]
        ring_tip == landmarks[17]
    IN  CASE gesture_name = "hello" ->
                 IF wrist.y < middle_tip.y /\ wrist.y < index_tip.y THEN 8 ELSE 0
          [] gesture_name = "thank_you" ->
                 IF wrist.y < 30 /\ Abs(wrist.x - 50) < 30 THEN 7 ELSE 0
          [] gesture_name = "yes" -> IF thumb_tip.x > index_tip.x THEN 6 ELSE 0
          [] gesture_name = "no" -> IF Abs(middle_tip.x - ring_tip.x) < 5 THEN 6 ELSE 0
          [] gesture_name = "please" ->
                 IF 30 < wrist.x /\ wrist.x < 70 /\ 30 < wrist.y /\ wrist.y < 70
                 THEN 5 ELSE 0
          [] gesture_name = "sorry" ->
                 IF wrist.y > 40 /\ 20 < wrist.x /\ wrist.x < 80 THEN 6 ELSE 0
          [] gesture_name = "help" ->
                 IF wrist.y < 20 /\ middle_tip.y < wrist.y THEN 7 ELSE 0
          [] gesture_name = "good" -> IF thumb_tip.y < thumb_ip.y THEN 8 ELSE 0
          [] gesture_name = "bad" -> IF thumb_tip.y > thumb_ip.y THEN 8 ELSE 0
          [] gesture_name = "love" -> IF Abs(middle_tip.x - ring_tip.x) < 3 THEN 6 ELSE 0

\* self._get_translation(gesture)
get_translation(gesture) ==
    CASE gesture = "hello" -> "Hello"
      [] gesture = "thank_you" -> "Thank you"
      [] gesture = "yes" -> "Yes"
      [] gesture = "no" -> "No"
      [] gesture = "please" -> "Please"
      [] gesture = "sorry" -> "Sorry"
      [] gesture = "help" -> "Help"
      [] gesture = "good" -> "Good"
      [] gesture = "bad" -> "Bad"
      [] gesture = "love" -> "Love"

\* the test with >= for >
AboveThresholdOrEqual(confidence) == confidence >= DetectionThreshold

\* confidence > 0.6
AboveThreshold(confidence) == confidence > DetectionThreshold

\* the loop of _detect_gestures from detector i on
RECURSIVE DetectLoop(_, _, _)
DetectLoop(landmarks, i, detected) ==
    IF i > Len(sign_gestures) THEN detected
    ELSE LET gesture_name == sign_gestures[i]
         IN  IF DetectorRaises(gesture_name, landmarks)
             THEN DetectLoop(landmarks, i + 1, detected)         \* except: print
             ELSE LET confidence == DetectorConfidence(gesture_name, landmarks)
                  IN  IF AboveThreshold(confidence)
                      THEN DetectLoop(landmarks, i + 1,
                               Append(detected,
                                      [gesture |-> gesture_name,
                                       confidence |-> confidence,
                                       translation |-> get_translation(gesture_name)]))
                      ELSE DetectLoop(landmarks, i + 1, detected)

detect_gestures(landmarks) == DetectLoop(landmarks, 1, << >>)

\* hands as the detector may list them: cut after any number of landmarks, the
\* landmarks the detectors read at several places, the others mid-frame
GestureHand(n, wrist, thumb_tip, index_tip, middle_tip, ring_tip) ==
    [k \in 1..n |->
        CASE k = 1 -> wrist
          [] k = 4 -> [x |-> 45, y |-> 40]
          [] k = 5 -> thumb_tip
          [] k = 9 -> index_tip
          [] k = 13 -> middle_tip
          [] k = 17 -> ring_tip
          [] OTHER -> [x |-> 50, y |-> 50]]

GestureHands ==
    {GestureHand(n, wrist, thumb_tip, index_tip, middle_tip, ring_tip) :
        n \in {0, 1, 5, 9, 13, 17, 21},
        wrist \in {[x |-> 50, y |-> 10], [x |-> 50, y |-> 50], [x |-> 90, y |-> 25]},
        thumb_tip \in {[x |-> 20, y |-> 30], [x |-> 60, y |-> 30], [x |-> 60, y |-> 40],
                       [x |-> 60, y |-> 50]},
        index_tip \in {[x |-> 40, y |-> 5], [x |-> 40, y |-> 60]},
        middle_tip \in {[x |-> 50, y |-> 5], [x |-> 50, y |-> 60]},
        ring_tip \in {[x |-> 50, y |-> 50], [x |-> 53, y |-> 50], [x |-> 70, y |-> 50]}}

(***************************************************************************)
(* The state machine.                                                      *)
(***************************************************************************)
Init ==
    /\ asl_alphabet_data = << >>
    /\ pc = "start"
    /\ query = NoData
    /\ result = NoCall
    /\ rms_args = << << >>, NoData >>
    /\ rms_result = DNaN
    /\ normalizer = NotNormalized
    /\ current_match = None
    /\ current_distance = float_inf
    /\ last_detected_sign = None
    /\ match_viz_image = NoImage
    /\ detected_text = << >>
    /\ text_history = << >>
    /\ key = NoKey
    /\ request = NoRequest
    /\ response = NoResponse
    /\ live_tracker = LiveHandTracker
    /\ writer = [pc |-> 0, call |-> 0]
    /\ reader = [pc |-> 0, data |-> NoSnapshot]
    /\ gesture_input = << >>
    /\ detected_gestures = << >>

\* load_asl_alphabet_data() at start-up: the hand_landmarks directory is absent ...
LoadNoDirectory ==
    /\ pc = "start"
    /\ pc' = "loaded"
    /\ UNCHANGED <<asl_alphabet_data, query, result, rms_args, rms_result, normalizer, restVars>>

\* ... or holds some of the letter files
Load ==
    /\ pc = "start"
    /\ \E files \in [1..NumLetters -> FileStates] :
           asl_alphabet_data' = LoadLoop(asl_alphabet_data, files, 1)
    /\ pc' = "loaded"
    /\ UNCHANGED <<query, result, rms_args, rms_result, normalizer, restVars>>

\* one call of find_closest_asl_match on a frame
Match ==
    /\ pc = "loaded"
    /\ \E q \in Queries :
           /\ query' = q
           /\ result' = find_closest_asl_match(q, asl_alphabet_data)
    /\ pc' = "matched"
    /\ UNCHANGED <<asl_alphabet_data, rms_args, rms_result, normalizer, restVars>>

\* one call of calculate_rms_distance on two poses
RmsCall ==
    /\ pc = "start"
    /\ \E live \in RmsLive, asl \in RmsAsl :
           /\ rms_args' = <<live, asl>>
           /\ rms_result' = calculate_rms_distance(live, asl)
    /\ pc' = "rms"
    /\ UNCHANGED <<asl_alphabet_data, query, result, normalizer, restVars>>

Next == LoadNoDirectory \/ Load \/ Match \/ RmsCall

Spec == Init /\ [][Next]_vars

\* live tool: one camera frame through calculate_edge_to_edge_scaling and
\* process_landmarks
LiveFrame ==
    /\ pc = "start"
    /\ \E frame \in RawFrames :
           LET all_landmarks == AllLandmarks(frame)
               scaling_info == calculate_edge_to_edge_scaling(all_landmarks)
           IN  normalizer' =
                   [site |-> "live", raw |-> frame,
                    scaling |-> [h \in 1..Len(frame) |-> scaling_info],
                    scaled |-> [h \in 1..Len(frame) |-> LiveScaled(frame[h], scaling_info)],
                    passed |-> [h \in 1..Len(frame) |->
                                   PassedAfter("live", LiveScaled(frame[h], scaling_info))],
                    hands |-> [h \in 1..Len(frame) |->
                                  process_landmarks(frame[h], scaling_info)]]
    /\ pc' = "normalized"
    /\ UNCHANGED <<asl_alphabet_data, query, result, rms_args, rms_result, restVars>>

\* offline tool: one image of detect_hands_and_save_landmarks
OfflineImage ==
    /\ pc = "start"
    /\ \E frame \in RawFrames :
           LET scaling_info == IF frame = << >> THEN NoScalingInfo
                               ELSE OfflineScalingInfo(AllLandmarks(frame))
           IN  normalizer' =
                   [site |-> "offline", raw |-> frame,
                    scaling |-> [h \in 1..Len(frame) |-> scaling_info],
                    scaled |-> [h \in 1..Len(frame) |->
                                   OfflineScaled(frame[h], scaling_info)],
                    passed |-> [h \in 1..Len(frame) |->
                                   PassedAfter("offline",
                                               OfflineScaled(frame[h], scaling_info))],
                    hands |-> [h \in 1..Len(frame) |->
                                  OfflineLandmarks(frame[h], scaling_info)]]
    /\ pc' = "normalized"
    /\ UNCHANGED <<asl_alphabet_data, query, result, rms_args, rms_result, restVars>>

\* API: the hands of one /predict-letter request through
\* process_landmarks_for_classifier
ApiRequest ==
    /\ pc = "start"
    /\ \E hands \in ApiRequests :
           normalizer' =
               [site |-> "api", raw |-> hands,
                scaling |-> [h \in 1..Len(hands) |-> ApiScalingInfo(hands[h])],
                scaled |-> [h \in 1..Len(hands) |-> ApiScaled(hands[h])],
                passed |-> [h \in 1..Len(hands) |->
                               PassedAfter("api", ApiScaled(hands[h]))],
                hands |-> [h \in 1..Len(hands) |->
                              process_landmarks_for_classifier(hands[h])]]
    /\ pc' = "normalized"
    /\ UNCHANGED <<asl_alphabet_data, query, result, rms_args, rms_result, restVars>>

NormNext == LiveFrame \/ OfflineImage \/ ApiRequest

NormSpec == Init /\ [][NormNext]_vars

(***************************************************************************)
(* The main loop of the live tool: load_asl_alphabet_data() once, then per *)
(* iteration the periodic comparison and the key read by cv2.waitKey.      *)
(***************************************************************************)
\* main() up to the loop
LoopStart ==
    /\ pc = "start"
    /\ \E files \in [1..NumLetters -> LoopFileStates] :
           asl_alphabet_data' = LoadLoop(asl_alphabet_data, files, 1)
    /\ pc' = "compare"
    /\ UNCHANGED <<query, result, rms_args, rms_result, normalizer, restVars>>

\* an iteration whose comparison is not due, or whose tracker has no data
NoComparison ==
    /\ pc = "compare"
    /\ pc' = "waitKey"
    /\ UNCHANGED <<asl_alphabet_data, query, result, rms_args, rms_result, normalizer,
                   restVars>>

\* the periodic comparison of the tracker's data with the library
Comparison ==
    /\ pc = "compare"
    /\ \E landmarks_data \in LoopQueries :
           LET best == find_closest_asl_match(landmarks_data, asl_alphabet_data)
               best_match == best.letter
               changed == Truthy(best_match) /\ best_match # last_detected_sign
               draws == changed /\ InLibrary(asl_alphabet_data, best_match)
               viz == create_landmark_visualization(
                          LibraryData(asl_alphabet_data, best_match), TRUE)
           IN  /\ query' = landmarks_data
               /\ result' = best
               /\ current_match' = IF changed THEN best_match ELSE current_match
               /\ last_detected_sign' = IF changed THEN best_match ELSE last_detected_sign
               /\ current_distance' = IF Truthy(best_match) THEN best.distance
                                      ELSE current_distance
               /\ match_viz_image' = IF draws THEN viz.image ELSE match_viz_image
               /\ asl_alphabet_data' =
                      IF draws
                      THEN LibraryWith(asl_alphabet_data, best_match, viz.landmarks_data)
                      ELSE asl_alphabet_data
    /\ pc' = "waitKey"
    /\ UNCHANGED <<nonLoopVars, detected_text, text_history, key>>

\* SPACE: the match, in upper case, is appended to the text
KeySpace ==
    /\ pc = "waitKey"
    /\ key' = " "
    /\ IF Truthy(current_match)
       THEN /\ Len(text_history) < MaxText
            /\ detected_text' = detected_text \o upper(Chars(current_match))
            /\ text_history' = Append(text_history, upper(Chars(current_match)))
       ELSE UNCHANGED <<detected_text, text_history>>
    /\ pc' = "compare"
    /\ UNCHANGED <<asl_alphabet_data, query, result, nonLoopVars,
                   current_match, current_distance, last_detected_sign, match_viz_image>>

\* R: the text is reset
KeyReset ==
    /\ pc = "waitKey"
    /\ key' = "r"
    /\ detected_text' = << >>
    /\ text_history' = << >>
    /\ pc' = "compare"
    /\ UNCHANGED <<asl_alphabet_data, query, result, nonLoopVars,
                   current_match, current_distance, last_detected_sign, match_viz_image>>

\* B: backspace
KeyBackspace ==
    /\ pc = "waitKey"
    /\ key' = "b"
    /\ detected_text' = Backspace(detected_text, text_history).detected_text
    /\ text_history' = Backspace(detected_text, text_history).text_history
    /\ pc' = "compare"
    /\ UNCHANGED <<asl_alphabet_data, query, result, nonLoopVars,
                   current_match, current_distance, last_detected_sign, match_viz_image>>

\* no key within the millisecond, or a key without a branch
KeyOther ==
    /\ pc = "waitKey"
    /\ key' = NoKey
    /\ pc' = "compare"
    /\ UNCHANGED <<asl_alphabet_data, query, result, nonLoopVars,
                   current_match, current_distance, last_detected_sign, match_viz_image,
                   detected_text, text_history>>

\* Q: the loop is left
KeyQuit ==
    /\ pc = "waitKey"
    /\ key' = "q"
    /\ pc' = "stopped"
    /\ UNCHANGED <<asl_alphabet_data, query, result, nonLoopVars,
                   current_match, current_distance, last_detected_sign, match_viz_image,
                   detected_text, text_history>>

LoopNext ==
    LoopStart \/ NoComparison \/ Comparison \/ KeySpace \/ KeyReset \/ KeyBackspace
    \/ KeyOther \/ KeyQuit

LoopSpec == Init /\ [][LoopNext]_vars

(***************************************************************************)
(* The API process: load_asl_alphabet_data() when main.py is imported,     *)
(* then requests.                                                          *)
(***************************************************************************)
ApiImport ==
    /\ pc = "start"
    /\ \E files \in [1..NumLetters -> EndpointFileStates] :
           asl_alphabet_data' = LoadLoop(asl_alphabet_data, files, 1)
    /\ pc' = "serving"
    /\ UNCHANGED <<query, result, rms_args, rms_result, normalizer, restVars>>

\* one POST /predict-letter
PredictLetter ==
    /\ pc = "serving"
    /\ \E req \in Requests :
           /\ request' = req
           /\ response' = predict_letter_from_landmarks(req, asl_alphabet_data)
    /\ pc' = "responded"
    /\ UNCHANGED <<asl_alphabet_data, nonApiVars>>

ApiNext == ApiImport \/ PredictLetter

ApiSpec == Init /\ [][ApiNext]_vars

(***************************************************************************)
(* Two threads on the tracker.  Nothing in the class makes a call atomic:  *)
(* a thread may be preempted between any two attribute accesses.           *)
(***************************************************************************)
\* update() is entered: the lock flag is read, and found False
UpdateCall ==
    /\ writer.pc = 0
    /\ writer.call < MaxUpdates
    /\ ~live_tracker.lock
    /\ writer' = [pc |-> 1, call |-> writer.call + 1]
    /\ pc' = "tracking"
    /\ UNCHANGED <<live_tracker, reader, nonTrackerVars>>

\* the next assignment of update()
UpdateAssign ==
    /\ writer.pc \in 1..UpdateSteps
    /\ live_tracker' = UpdateAssignment(live_tracker, writer.pc, writer.call)
    /\ writer' = [writer EXCEPT !.pc = IF @ = UpdateSteps THEN 0 ELSE @ + 1]
    /\ UNCHANGED <<pc, reader, nonTrackerVars>>

\* get_data() is entered
GetDataCall ==
    /\ reader.pc \in {0, GetDataSteps + 1}
    /\ reader' = [pc |-> 1, data |-> NoSnapshot]
    /\ pc' = "tracking"
    /\ UNCHANGED <<live_tracker, writer, nonTrackerVars>>

\* the next item of the returned dict is read; after the last one the call returns
GetDataItem ==
    /\ reader.pc \in 1..GetDataSteps
    /\ reader' = [pc |-> reader.pc + 1,
                  data |-> GetDataRead(reader.data, reader.pc, live_tracker)]
    /\ UNCHANGED <<pc, live_tracker, writer, nonTrackerVars>>

TrackerNext == UpdateCall \/ UpdateAssign \/ GetDataCall \/ GetDataItem

TrackerSpec == Init /\ [][TrackerNext]_vars

(***************************************************************************)
(* The gesture recognizer: one call of _detect_gestures on a hand.         *)
(***************************************************************************)
DetectGestures ==
    /\ pc = "start"
    /\ \E landmarks \in GestureHands :
           /\ gesture_input' = landmarks
           /\ detected_gestures' = detect_gestures(landmarks)
    /\ pc' = "detected"
    /\ UNCHANGED nonGestureVars

GestureNext == DetectGestures

GestureSpec == Init /\ [][GestureNext]_vars

(***************************************************************************)
(* Vocabulary of the properties.                                           *)
(***************************************************************************)
Matched == pc = "matched"

HasHand(frame) == ~frame.empty /\ frame.hands # << >>

LibIdx == 1..Len(asl_alphabet_data)
LetterAt(i) == asl_alphabet_data[i].letter
RefAt(i) == asl_alphabet_data[i].data
RefLabel(i) == AslHandLabel(RefAt(i))
QueryLabel == query.hands[1].hand_label

\* position of a letter in the alphabet
AlphaPos(letter) == CHOOSE k \in 1..Len(Alphabet) : Alphabet[k] = letter

\* the raw and the orientation-adjusted distance of the query to library item i
RawD(i) == calculate_rms_distance(query.hands, RefAt(i))
Adj(i) == AdjustedDistance(query, RefAt(i))

\* real-number order on distances, stated apart from the code's comparison
Finite(d) == d.t = "fin"
Zero == [t |-> "fin", num |-> 0, den |-> 1]
Smaller(a, b) == Finite(a) /\ Finite(b) /\ a.num * b.den < b.num * a.den
StrictlyBest(a, b) == Finite(a) /\ (b.t = "inf" \/ Smaller(a, b))

\* 1.1 * d
Penalized(d) == IF Finite(d) THEN Dist(d.num * 121, d.den * 100) ELSE d

\* both poses carry an orientation label and the labels differ
Disagree(i) == QueryLabel # None /\ RefLabel(i) # None /\ QueryLabel # RefLabel(i)

(***************************************************************************)
(* C1. find_closest_asl_match returns the letter of least adjusted         *)
(* distance; among several letters at that least distance it returns the   *)
(* one that comes first in the library, whose order after                  *)
(* load_asl_alphabet_data is that of asl_letters, alphabetical.  A letter  *)
(* is a candidate when its adjusted distance is a number; with no          *)
(* candidate no letter is returned.                                        *)
(***************************************************************************)
IsMinimum(i) == Finite(Adj(i)) /\ \A j \in LibIdx : ~Smaller(Adj(j), Adj(i))

C1_FirstMinimumWins ==
    (Matched /\ HasHand(query)) =>
        LET adj == [i \in LibIdx |-> Adj(i)]
            pos == [i \in LibIdx |-> AlphaPos(LetterAt(i))]
            minima == {i \in LibIdx :
                          Finite(adj[i]) /\ \A j \in LibIdx : ~Smaller(adj[j], adj[i])}
        IN  /\ \A i, j \in LibIdx : i < j => pos[i] < pos[j]
            /\ \A i \in minima :
                   (\A j \in minima : pos[i] <= pos[j])
                   => (result.letter = LetterAt(i) /\ result.distance = adj[i])
            /\ minima = {} => result.letter = None

\* two letters tie at a finite least distance and the alphabetically first is returned
C1_Witness ==
    /\ Matched /\ HasHand(query)
    /\ \E i, j \in LibIdx :
           /\ i < j /\ IsMinimum(i) /\ IsMinimum(j)
           /\ result.letter = LetterAt(i)

(***************************************************************************)
(* C2. The value compared for a reference, and returned as the distance    *)
(* when that reference wins, is 1.1 times the raw RMS distance when the    *)
(* query's and the reference's orientation labels disagree and the raw     *)
(* distance otherwise; a reference of the other orientation is returned    *)
(* whenever its penalized distance is strictly smaller than every other    *)
(* entry's adjusted distance.                                              *)
(***************************************************************************)
Expected(i) == IF Disagree(i) THEN Penalized(RawD(i)) ELSE RawD(i)

C2_OrientationPenalty ==
    (Matched /\ HasHand(query)) =>
        \A i \in LibIdx :
            /\ result.letter = LetterAt(i) => result.distance = Expected(i)
            /\ (/\ Disagree(i) /\ Finite(Expected(i))
                /\ \A j \in LibIdx \ {i} : StrictlyBest(Expected(i), Expected(j)))
               => result.letter = LetterAt(i)

\* the reference nearest in raw distance has the other orientation and loses,
\* once penalized, to a reference of the query's orientation
C2_Witness ==
    /\ Matched /\ HasHand(query)
    /\ \E i, j \in LibIdx :
           /\ Disagree(i) /\ ~Disagree(j)
           /\ Smaller(RawD(i), RawD(j))
           /\ Smaller(RawD(j), Penalized(RawD(i)))
           /\ result.letter = LetterAt(j)
           /\ result.distance = RawD(j)

(***************************************************************************)
(* C3. Of two references at the same raw distance from the query, one with *)
(* the query's orientation label and one with the other label, the one     *)
(* with the other label is never the letter returned, whatever their order *)
(* in the library and also when the shared raw distance is 0.              *)
(***************************************************************************)
C3_MatchingOrientationPreferred ==
    (Matched /\ HasHand(query)) =>
        \A i, j \in LibIdx :
            (/\ RefAt(i).hands # << >> /\ RefAt(j).hands # << >>
             /\ RawD(i) = RawD(j)
             /\ RefLabel(i) = QueryLabel
             /\ RefLabel(j) # QueryLabel)
            => result.letter # LetterAt(j)

(***************************************************************************)
(* C4. Self-match.  As claimed: a query whose first hand has exactly the   *)
(* joints (at least one) and the orientation label of letter L's reference *)
(* returns letter L with distance 0.                                       *)
(***************************************************************************)
RefPointsOf(i) == RefAt(i).hands[1].landmarks

SelfQuery(i) ==
    /\ HasHand(query) /\ RefAt(i).hands # << >>
    /\ query.hands[1].landmarks = RefPointsOf(i)
    /\ Len(RefPointsOf(i)) > 0
    /\ QueryLabel = RefLabel(i)

C4_SelfMatchReturnsLetter ==
    Matched =>
        \A i \in LibIdx :
            SelfQuery(i) => (result.letter = LetterAt(i) /\ result.distance = Zero)

(***************************************************************************)
(* C4, amended.  When the joints of L's reference are all finite, the      *)
(* self-query returns distance 0 and the first letter of the library whose *)
(* reference has the same scaled (x, y) joints as L's: L itself when no    *)
(* earlier letter has them.                                                *)
(***************************************************************************)
AllFinite(points) ==
    \A k \in 1..Len(points) : points[k].x_scaled.t = "fin" /\ points[k].y_scaled.t = "fin"

SameXY(p, q) ==
    /\ Len(p) = Len(q)
    /\ \A k \in 1..Len(p) : p[k].x_scaled = q[k].x_scaled /\ p[k].y_scaled = q[k].y_scaled

SameJoints(i, j) == RefAt(j).hands # << >> /\ SameXY(RefPointsOf(j), RefPointsOf(i))

C4_SelfMatchFirstOfEqualPoses ==
    Matched =>
        \A i \in LibIdx :
            (SelfQuery(i) /\ AllFinite(RefPointsOf(i))) =>
                /\ result.distance = Zero
                /\ \E j \in LibIdx :
                       /\ SameJoints(i, j)
                       /\ \A k \in LibIdx : SameJoints(i, k) => j <= k
                       /\ result.letter = LetterAt(j)

\* the query is the reference of a letter that is not the first of the library,
\* the earlier letter has another pose, and the letter comes back at distance 0
C4_Witness ==
    /\ Matched
    /\ \E i \in LibIdx :
           /\ i > 1 /\ SelfQuery(i) /\ ~SameJoints(i, 1)
           /\ Finite(RawD(1))
           /\ result.letter = LetterAt(i) /\ result.distance = Zero

(***************************************************************************)
(* C5. No data yields no match: with an empty query, a query without hands *)
(* or an empty library, find_closest_asl_match returns                     *)
(* (None, +infinity, None).                                                *)
(***************************************************************************)
C5_NoDataNoMatch ==
    (Matched /\ (query.empty \/ query.hands = << >> \/ asl_alphabet_data = << >>))
    => result = MatchResult(None, DInf, None)

\* a query with a hand of joints is matched against the empty library
C5_Witness ==
    /\ Matched /\ asl_alphabet_data = << >>
    /\ HasHand(query) /\ Len(query.hands[1].landmarks) > 0
    /\ result.letter = None /\ result.distance = DInf

(***************************************************************************)
(* C6. calculate_rms_distance returns +infinity when the query has no      *)
(* hands, the reference has no hands, or the two first hands differ in     *)
(* joint count or both have no joint; and the letter returned by           *)
(* find_closest_asl_match is never one whose reference is at +infinity.    *)
(***************************************************************************)
RmsCalled == pc = "rms"
RmsLiveArg == rms_args[1]
RmsAslArg == rms_args[2]
RmsBothHands == RmsLiveArg # << >> /\ ~RmsAslArg.empty /\ RmsAslArg.hands # << >>
RmsLivePoints == RmsLiveArg[1].landmarks
RmsAslPoints == RmsAslArg.hands[1].landmarks

C6_InfiniteDistanceIsNoMatch ==
    /\ RmsCalled =>
           ((\/ ~RmsBothHands
             \/ Len(RmsLivePoints) # Len(RmsAslPoints)
             \/ Len(RmsLivePoints) = 0)
            => rms_result = DInf)
    /\ Matched =>
           \A i \in LibIdx : RawD(i) = DInf => result.letter # LetterAt(i)

\* two hands with different joint counts were compared and the distance is +infinity
C6_Witness ==
    /\ RmsCalled /\ RmsBothHands
    /\ Len(RmsLivePoints) # Len(RmsAslPoints)
    /\ Len(RmsLivePoints) > 0 /\ Len(RmsAslPoints) > 0
    /\ rms_result = DInf

(***************************************************************************)
(* C7. For two hands with the same joint count n, the distance d returned  *)
(* by calculate_rms_distance satisfies d^2 * n = sum over the joints i of  *)
(* (qx_i - rx_i)^2 + (qy_i - ry_i)^2 on the scaled coordinates, joints     *)
(* paired by list index; the result is the same whatever the z and raw     *)
(* coordinates, the confidence and the label of either pose.               *)
(***************************************************************************)
RECURSIVE SumOver(_, _)
SumOver(S, f) ==
    IF S = {} THEN 0
    ELSE LET k == CHOOSE k \in S : TRUE IN f[k] + SumOver(S \ {k}, f)

Square(n) == n * n

SquaredError(p, q) ==
    SumOver(1..Len(p),
            [k \in 1..Len(p) |->
                Square(p[k].x_scaled.v - q[k].x_scaled.v)
                + Square(p[k].y_scaled.v - q[k].y_scaled.v)])

\* the hand with the fields the distance must not read replaced
Vary(hand, v) ==
    [hand EXCEPT !.hand_label = v.label, !.confidence = v.confidence,
                 !.landmarks = [k \in 1..Len(hand.landmarks) |->
                                   [hand.landmarks[k] EXCEPT !.z_scaled = v.z,
                                                             !.x_raw = v.raw,
                                                             !.y_raw = v.raw,
                                                             !.z_raw = v.raw]]]

Variations ==
    {[label |-> "Left", confidence |-> 1, z |-> Fin(0), raw |-> Fin(0)],
     [label |-> "Right", confidence |-> 0, z |-> Fin(7), raw |-> Fin(5)],
     [label |-> None, confidence |-> 0, z |-> NaN, raw |-> PosInf]}

C7_RootMeanSquareOfXY ==
    (RmsCalled /\ RmsBothHands /\ Len(RmsLivePoints) = Len(RmsAslPoints)
     /\ Len(RmsLivePoints) > 0) =>
        /\ (AllFinite(RmsLivePoints) /\ AllFinite(RmsAslPoints)) =>
               /\ Finite(rms_result)
               /\ rms_result.num * Len(RmsLivePoints)
                  = SquaredError(RmsLivePoints, RmsAslPoints) * rms_result.den
        /\ \A v, w \in Variations :
               calculate_rms_distance(<<Vary(RmsLiveArg[1], v)>>,
                                      Frame(<<Vary(RmsAslArg.hands[1], w)>>))
               = rms_result

\* two hands of two joints each were compared, the first joint of one being the
\* second joint of the other and not its own second joint
C7_Witness ==
    /\ RmsCalled /\ RmsBothHands
    /\ Len(RmsLivePoints) = 2 /\ Len(RmsAslPoints) = 2
    /\ AllFinite(RmsLivePoints) /\ AllFinite(RmsAslPoints)
    /\ RmsLivePoints[1].x_scaled # RmsLivePoints[2].x_scaled
    /\ RmsLivePoints[1].x_scaled = RmsAslPoints[2].x_scaled
    /\ RmsLivePoints[1].y_scaled = RmsAslPoints[2].y_scaled
    /\ Finite(rms_result) /\ rms_result.num > 0

(***************************************************************************)
(* C8. Distance symmetry: for two poses of equal joint count, the distance *)
(* with the first as query and the second as reference is the distance     *)
(* with the second as query and the first as reference.  Two NaN results   *)
(* count as the same result.                                               *)
(***************************************************************************)
C8_DistanceSymmetric ==
    (RmsCalled /\ RmsBothHands /\ Len(RmsLivePoints) = Len(RmsAslPoints)) =>
        calculate_rms_distance(RmsAslArg.hands, Frame(RmsLiveArg)) = rms_result

\* two different poses of equal joint count at a positive finite distance
C8_Witness ==
    /\ RmsCalled /\ RmsBothHands
    /\ Len(RmsLivePoints) = Len(RmsAslPoints)
    /\ RmsLivePoints # RmsAslPoints
    /\ Finite(rms_result) /\ rms_result.num > 0

(***************************************************************************)
(* C9. When a scaled coordinate of the query's first hand is NaN or        *)
(* infinite, every library pair that is thereby not comparable is a failed *)
(* match: the distance returned is never NaN, a letter is returned only    *)
(* with a finite distance, and never the letter of such a pair.            *)
(***************************************************************************)
QueryNonFinite == HasHand(query) /\ ~AllFinite(query.hands[1].landmarks)

C9_NonFiniteNeverPropagates ==
    (Matched /\ QueryNonFinite) =>
        /\ result.distance.t # "nan"
        /\ result.letter # None => Finite(result.distance)
        /\ \A i \in LibIdx : ~Finite(Adj(i)) => result.letter # LetterAt(i)

\* a query with a NaN coordinate met a reference of the same joint count:
\* the pair's distance is NaN and no letter is returned
C9_Witness ==
    /\ Matched /\ QueryNonFinite
    /\ \E i \in LibIdx : RawD(i).t = "nan"
    /\ result = MatchResult(None, DInf, None)

(***************************************************************************)
(* C10. A query whose first hand has no orientation label (None) is        *)
(* malformed input: the matcher returns no letter for it.                  *)
(***************************************************************************)
C10_MissingLabelIsNoMatch ==
    (Matched /\ HasHand(query) /\ QueryLabel = None) => result.letter = None

(***************************************************************************)
(* C11. Single-hand matching: the triple returned for a query is the one   *)
(* returned for its first hand alone, whatever further hands the query     *)
(* carries, and it stays the same when the query's second hand is added    *)
(* after the first hand of every reference.                                *)
(***************************************************************************)
FirstHandOnly(frame) == Frame(<<frame.hands[1]>>)

\* the library with hand e added after the first hand of every reference that has one
WithExtraHand(lib, e) ==
    [i \in 1..Len(lib) |->
        [lib[i] EXCEPT !.data.hands = IF @ = << >> THEN @ ELSE @ \o <<e>>]]

C11_OnlyFirstHandCompared ==
    (Matched /\ HasHand(query)) =>
        /\ result = find_closest_asl_match(FirstHandOnly(query), asl_alphabet_data)
        /\ Len(query.hands) > 1 =>
               result = find_closest_asl_match(
                            query, WithExtraHand(asl_alphabet_data, query.hands[2]))

\* a two-hand query got the letter of its first hand although its second hand,
\* matched alone, gets another letter
C11_Witness ==
    /\ Matched /\ HasHand(query) /\ Len(query.hands) = 2
    /\ result.letter # None
    /\ LET alone == find_closest_asl_match(Frame(<<query.hands[2]>>), asl_alphabet_data)
       IN  alone.letter # None /\ alone.letter # result.letter

(***************************************************************************)
(* Vocabulary of the normalizer's properties.                              *)
(***************************************************************************)
Normalized == pc = "normalized"
Site == normalizer.site
HandIdx == 1..Len(normalizer.raw)
JointIdx(h) == 1..Len(normalizer.raw[h])
RawAt(h, k) == normalizer.raw[h][k]
ScaledAt(h, k) == normalizer.scaled[h][k]
OutAt(h, k) == normalizer.hands[h][k]
FrameOf(h) == normalizer.scaling[h]

RLeq(a, b) == ~RLess(b, a)

\* the landmarks whose bounding box the scaling frame of hand h was computed from
BoxLandmarks(h) == IF Site = "api" THEN normalizer.raw[h] ELSE AllLandmarks(normalizer.raw)

ZeroExtentX(h) == \A j, k \in 1..Len(BoxLandmarks(h)) : BoxLandmarks(h)[j].x = BoxLandmarks(h)[k].x
ZeroExtentY(h) == \A j, k \in 1..Len(BoxLandmarks(h)) : BoxLandmarks(h)[j].y = BoxLandmarks(h)[k].y

(***************************************************************************)
(* C12. After the scaling step every joint's (x_scaled, y_scaled) lies in  *)
(* the square [0, 2000] x [0, 2000]; x and y are scaled by one factor, the *)
(* smaller of the two per-axis ratios, with which the padded box fits the  *)
(* square on both axes.                                                    *)
(***************************************************************************)
InSquare(lm) ==
    /\ RLeq(RInt(0), lm.x_scaled) /\ RLeq(lm.x_scaled, RInt(target_size))
    /\ RLeq(RInt(0), lm.y_scaled) /\ RLeq(lm.y_scaled, RInt(target_size))

C12_ScaledInsideSquare ==
    Normalized =>
        \A h \in HandIdx :
            LET f == FrameOf(h).scale_factor
            IN  /\ \A k \in JointIdx(h) : InSquare(ScaledAt(h, k))
                /\ \A j, k \in JointIdx(h) :
                       /\ RSub(ScaledAt(h, j).x_scaled, ScaledAt(h, k).x_scaled)
                          = RMul(f, RSub(RawAt(h, j).x, RawAt(h, k).x))
                       /\ RSub(ScaledAt(h, j).y_scaled, ScaledAt(h, k).y_scaled)
                          = RMul(f, RSub(RawAt(h, j).y, RawAt(h, k).y))
                /\ f \in {FrameOf(h).scale_x, FrameOf(h).scale_y}
                /\ RLeq(f, FrameOf(h).scale_x) /\ RLeq(f, FrameOf(h).scale_y)
                /\ RLeq(RMul(f, RSub(FrameOf(h).max_x, FrameOf(h).min_x)), RInt(target_size))
                /\ RLeq(RMul(f, RSub(FrameOf(h).max_y, FrameOf(h).min_y)), RInt(target_size))

\* a live frame whose box is wider than high: the x ratio is the smaller one, and
\* two joints that differ in x and in y were scaled by it
C12_Witness ==
    /\ Normalized /\ Site = "live"
    /\ \E h \in HandIdx :
           /\ RLess(FrameOf(h).scale_x, FrameOf(h).scale_y)
           /\ FrameOf(h).scale_factor = FrameOf(h).scale_x
           /\ \E j, k \in JointIdx(h) :
                  /\ RawAt(h, j).x # RawAt(h, k).x /\ RawAt(h, j).y # RawAt(h, k).y
                  /\ ScaledAt(h, j).x_scaled # ScaledAt(h, k).x_scaled

ZeroExtentScale ==
    IF Site = "live" THEN Rat(target_size, 2 * ZeroRangePadding) ELSE RInt(1)

C14_JointScalingFrame ==
    (Normalized /\ Len(normalizer.raw) > 1) =>
        \A h \in HandIdx :
            /\ \A g \in HandIdx : FrameOf(g) = FrameOf(h)
            /\ \A g \in HandIdx : \A k \in JointIdx(g) :
                   /\ RLeq(FrameOf(h).min_x, RawAt(g, k).x)
                   /\ RLeq(RawAt(g, k).x, FrameOf(h).max_x)
                   /\ RLeq(FrameOf(h).min_y, RawAt(g, k).y)
                   /\ RLeq(RawAt(g, k).y, FrameOf(h).max_y)

(***************************************************************************)
(* The normalizer of a call site as one function of the detected hands:    *)
(* scaling step, then rotation step.                                       *)
(***************************************************************************)
NormalizeAt(site, frame) ==
    IF site = "live"
    THEN LET scaling_info == calculate_edge_to_edge_scaling(AllLandmarks(frame))
         IN  [h \in 1..Len(frame) |-> process_landmarks(frame[h], scaling_info)]
    ELSE IF site = "offline"
    THEN LET scaling_info == OfflineScalingInfo(AllLandmarks(frame))
         IN  [h \in 1..Len(frame) |-> OfflineLandmarks(frame[h], scaling_info)]
    ELSE [h \in 1..Len(frame) |-> process_landmarks_for_classifier(frame[h])]

\* two results carry the same canonical (x_scaled, y_scaled) in every joint
SameCanonical(a, b) ==
    /\ Len(a) = Len(b)
    /\ \A h \in 1..Len(a) :
           /\ Len(a[h]) = Len(b[h])
           /\ \A k \in 1..Len(a[h]) :
                  /\ a[h][k].x_scaled = b[h][k].x_scaled
                  /\ a[h][k].y_scaled = b[h][k].y_scaled

MapJoints(frame, F(_, _)) ==
    [h \in 1..Len(frame) |-> [k \in 1..Len(frame[h]) |-> F(frame[h], frame[h][k])]]

(***************************************************************************)
(* C15. Scale invariance: normalizing the pose with all raw x, y doubled   *)
(* gives every joint the canonical (x_scaled, y_scaled) of the original    *)
(* pose, at every call site, poses of zero extent on an axis included.     *)
(***************************************************************************)
DoubledJoint(hand, lm) == [lm EXCEPT !.x = RMul(RInt(2), @), !.y = RMul(RInt(2), @)]

C15_ScaleInvariance ==
    (Normalized /\ Len(normalizer.raw) = 1) =>
        SameCanonical(NormalizeAt(Site, MapJoints(normalizer.raw, DoubledJoint)),
                      normalizer.hands)

(***************************************************************************)
(* C16. Rotation invariance of the live tool's normalizer: for a pose      *)
(* whose joints 0 and 9 do not coincide, normalizing a copy rotated about  *)
(* the wrist gives every joint the canonical (x_scaled, y_scaled) of the   *)
(* original.  The rotations tried are the quarter turn and the turn by the *)
(* angle of the 3-4-5 triangle.                                            *)
(***************************************************************************)
Turns == {[c |-> RInt(0), s |-> RInt(1)], [c |-> Rat(3, 5), s |-> Rat(4, 5)]}

\* the joint turned about the first joint of its hand, the wrist
Turned(t, hand, lm) ==
    LET rx == RSub(lm.x, hand[1].x)
        ry == RSub(lm.y, hand[1].y)
    IN  [lm EXCEPT !.x = RAdd(hand[1].x, RSub(RMul(rx, t.c), RMul(ry, t.s))),
                   !.y = RAdd(hand[1].y, RAdd(RMul(rx, t.s), RMul(ry, t.c)))]

WristAndJoint9Apart(hand) ==
    \E j, k \in 1..Len(hand) :
        /\ hand[j].idx = 0 /\ hand[k].idx = 9
        /\ (hand[j].x # hand[k].x \/ hand[j].y # hand[k].y)

C16_RotationInvariance ==
    (Normalized /\ Site = "live" /\ Len(normalizer.raw) = 1
     /\ WristAndJoint9Apart(normalizer.raw[1])) =>
        \A t \in Turns :
            LET TurnedBy(hand, lm) == Turned(t, hand, lm)
            IN  SameCanonical(NormalizeAt("live", MapJoints(normalizer.raw, TurnedBy)),
                              normalizer.hands)

(***************************************************************************)
(* C17. Idempotence: with the canonical (x_scaled, y_scaled) of every      *)
(* joint fed back as its raw position, the live tool's and the API's       *)
(* normalizer return the same canonical coordinates.                       *)
(***************************************************************************)
AsRaw(canonical) ==
    [h \in 1..Len(canonical) |->
        [k \in 1..Len(canonical[h]) |->
            [idx |-> canonical[h][k].landmark_id,
             x |-> canonical[h][k].x_scaled,
             y |-> canonical[h][k].y_scaled,
             z |-> canonical[h][k].z_scaled]]]

C17_Idempotence ==
    (Normalized /\ Site \in {"live", "api"} /\ Len(normalizer.raw) = 1) =>
        SameCanonical(NormalizeAt(Site, AsRaw(normalizer.hands)), normalizer.hands)

(***************************************************************************)
(* Vocabulary of the rotation step's properties.                           *)
(***************************************************************************)
JointsWithId(h, id) == {k \in JointIdx(h) : ScaledAt(h, k).landmark_id = id}

\* joint 0 and joint 9 are both in the input of the rotation step
BothPresent(h) == JointsWithId(h, 0) # {} /\ JointsWithId(h, 9) # {}

WristOf(h) == CHOOSE k \in JointsWithId(h, 0) : TRUE
Joint9Of(h) == CHOOSE k \in JointsWithId(h, 9) : TRUE

\* the scaled (x, y) of joint 9 is that of joint 0
Coincide(h) ==
    /\ ScaledAt(h, Joint9Of(h)).x_scaled = ScaledAt(h, WristOf(h)).x_scaled
    /\ ScaledAt(h, Joint9Of(h)).y_scaled = ScaledAt(h, WristOf(h)).y_scaled

\* the rotation step has a rotation to apply to hand h
Rotates(h) == BothPresent(h) /\ ~Coincide(h)

(***************************************************************************)
(* C18. normalize_hand_rotation returns its input with every field of      *)
(* every joint unchanged when joint 0 or joint 9 is absent, and when the   *)
(* scaled (x, y) of joint 9 equals that of joint 0: no rotation, and the   *)
(* wrist is not moved to (1000, 2000).                                     *)
(***************************************************************************)
\* the rotation step of the call site, and a pose with the joints of one id left out
RotationStep(landmarks_data) ==
    IF Site = "offline" THEN hand_detection_normalize_hand_rotation(landmarks_data)
    ELSE normalize_hand_rotation(landmarks_data)

Without(landmarks_data, id) == SelectSeq(landmarks_data, LAMBDA lm : lm.landmark_id # id)

C18_SkipLeavesInputUnchanged ==
    Normalized =>
        \A h \in HandIdx :
            /\ ~Rotates(h) => normalizer.hands[h] = normalizer.scaled[h]
            /\ \A id \in {0, 9} :
                   RotationStep(Without(normalizer.scaled[h], id))
                   = Without(normalizer.scaled[h], id)

\* joint 9 lies on the wrist, away from (1000, 2000), and the wrist stayed there
C18_Witness ==
    /\ Normalized
    /\ \E h \in HandIdx :
           /\ BothPresent(h) /\ Coincide(h)
           /\ ScaledAt(h, WristOf(h)).y_scaled # RInt(WristY)
           /\ OutAt(h, WristOf(h)).y_scaled = ScaledAt(h, WristOf(h)).y_scaled

(***************************************************************************)
(* C19. After the rotation step on a pose whose joints 0 and 9 do not      *)
(* coincide the wrist's scaled (x, y) is (1000, 2000), and in the offline  *)
(* tool every joint's relative_to_wrist_scaled (x, y) is its scaled (x, y) *)
(* minus (1000, 2000).                                                     *)
(***************************************************************************)
C19_WristAtCanonicalPoint ==
    Normalized =>
        \A h \in HandIdx :
            Rotates(h) =>
                /\ OutAt(h, WristOf(h)).x_scaled = RInt(1000)
                /\ OutAt(h, WristOf(h)).y_scaled = RInt(2000)
                /\ Site = "offline" =>
                       \A k \in JointIdx(h) :
                           /\ OutAt(h, k).relative_to_wrist_scaled.x
                              = RSub(OutAt(h, k).x_scaled, RInt(1000))
                           /\ OutAt(h, k).relative_to_wrist_scaled.y
                              = RSub(OutAt(h, k).y_scaled, RInt(2000))

\* an offline pose was rotated: its wrist was scaled to another point than
\* (1000, 2000), and joint 9's relative position changed with the rotation
C19_Witness ==
    /\ Normalized /\ Site = "offline"
    /\ \E h \in HandIdx :
           /\ Rotates(h)
           /\ ScaledAt(h, WristOf(h)).x_scaled # RInt(1000)
           /\ OutAt(h, WristOf(h)).x_scaled = RInt(1000)
           /\ OutAt(h, Joint9Of(h)).relative_to_wrist_scaled
              # ScaledAt(h, Joint9Of(h)).relative_to_wrist_scaled

(***************************************************************************)
(* C20. After the rotation step on a pose whose joints 0 and 9 do not      *)
(* coincide, joint 9 is straight up from the wrist: its scaled x is 1000,  *)
(* its scaled y is below 2000, and it is as far from the wrist as before   *)
(* the step; the distance between any two joints is the one before the     *)
(* step.                                                                   *)
(***************************************************************************)
\* squared distance of the scaled (x, y) of two landmarks, in units of the
\* frame's scale factor (the distance in raw pixels)
Dist2(p, q, unit) ==
    LET ddx == RDiv(RSub(p.x_scaled, q.x_scaled), unit)
        ddy == RDiv(RSub(p.y_scaled, q.y_scaled), unit)
    IN  RAdd(RMul(ddx, ddx), RMul(ddy, ddy))

SameButXY(a, b) ==
    IF Site = "offline"
    THEN b = [a EXCEPT !.x_scaled = b.x_scaled, !.y_scaled = b.y_scaled,
                       !.relative_to_wrist_scaled.x = b.relative_to_wrist_scaled.x,
                       !.relative_to_wrist_scaled.y = b.relative_to_wrist_scaled.y]
    ELSE b = [a EXCEPT !.x_scaled = b.x_scaled, !.y_scaled = b.y_scaled]

C21_RotationWritesOnlyXY ==
    Normalized =>
        \A h \in HandIdx :
            /\ Len(normalizer.hands[h]) = Len(normalizer.scaled[h])
            /\ \A k \in JointIdx(h) : SameButXY(ScaledAt(h, k), OutAt(h, k))

\* a pose was rotated: a joint's scaled position changed, and its depth, not 0,
\* is the one before the step
C21_Witness ==
    /\ Normalized
    /\ \E h \in HandIdx :
           /\ Rotates(h)
           /\ \E k \in JointIdx(h) :
                  /\ OutAt(h, k).x_scaled # ScaledAt(h, k).x_scaled
                  /\ OutAt(h, k).z_scaled # RInt(0)
                  /\ OutAt(h, k).z_scaled = ScaledAt(h, k).z_scaled

(***************************************************************************)
(* C22. Once loaded, the library is read-only: no comparison of a frame    *)
(* with it (find_closest_asl_match and, through it, calculate_rms_distance)*)
(* and no drawing of the best match changes asl_alphabet_data.             *)
(***************************************************************************)
C22_LibraryReadOnly ==
    [][pc # "start" => asl_alphabet_data' = asl_alphabet_data]_vars

\* a match with a Left reference hand was found and drawn
C22_Witness ==
    /\ pc = "waitKey"
    /\ Truthy(current_match)
    /\ match_viz_image # NoImage
    /\ result.letter = current_match
    /\ AslHandLabel(LibraryData(asl_alphabet_data, current_match)) = "Left"

(***************************************************************************)
(* C29. In the main loop, detected_text is always the concatenation of     *)
(* text_history; SPACE appends the upper-cased current_match, and only     *)
(* when there is one; R empties both; B removes the last entry and does    *)
(* nothing on an empty history; no other step changes the text; and        *)
(* current_match, once set, never goes back to None.                       *)
(***************************************************************************)
RECURSIVE Concat(_)
Concat(strs) == IF strs = << >> THEN << >> ELSE Head(strs) \o Concat(Tail(strs))

C29_Step ==
    /\ detected_text' = Concat(text_history')
    /\ current_match # None => current_match' # None
    /\ IF pc = "waitKey"
       THEN CASE key' = " " ->
                   text_history' = IF current_match # None
                                   THEN Append(text_history, upper(Chars(current_match)))
                                   ELSE text_history
              [] key' = "r" -> text_history' = << >> /\ detected_text' = << >>
              [] key' = "b" ->
                   text_history' = IF text_history = << >> THEN << >>
                                   ELSE DropLast(text_history)
              [] OTHER -> text_history' = text_history
       ELSE text_history' = text_history

C29_TextFollowsKeys == [][C29_Step]_vars

\* two letters were typed and the second one removed
C29_Witness ==
    /\ key = "b"
    /\ pc = "compare"
    /\ Len(text_history) = 1
    /\ detected_text = text_history[1]
    /\ Truthy(current_match)

(***************************************************************************)
(* C26. The triple find_closest_asl_match returns is well-formed: its      *)
(* letter is None exactly when its distance is +inf; and a letter that is  *)
(* not None is a key of the library, its distance is finite and not        *)
(* negative, and the orientation returned is the hand label of the first   *)
(* reference hand of that letter.                                          *)
(***************************************************************************)
C26_WellFormedTriple ==
    Matched =>
        /\ (result.letter = None) <=> (result.distance = float_inf)
        /\ result.letter # None =>
               /\ InLibrary(asl_alphabet_data, result.letter)
               /\ result.distance.t = "fin"
               /\ result.distance.num >= 0 /\ result.distance.den > 0
               /\ LibraryData(asl_alphabet_data, result.letter).hands # << >>
               /\ result.hand_label =
                      LibraryData(asl_alphabet_data, result.letter).hands[1].hand_label

\* a letter was matched at a positive distance in a library of several letters
C26_Witness ==
    /\ Matched
    /\ Len(asl_alphabet_data) > 1
    /\ result.letter # None
    /\ result.distance.num > 0
    /\ result.hand_label = "Right"

(***************************************************************************)
(* C25. The rotation step is pure: the records of the list the caller      *)
(* passed hold after the call the field values they held before it, and    *)
(* the result is only what the call returns.                               *)
(***************************************************************************)
C25_RotationStepIsPure ==
    Normalized =>
        \A h \in HandIdx : normalizer.passed[h] = normalizer.scaled[h]

(***************************************************************************)
(* C24. The call sites normalize alike: for the raw joints of one hand the *)
(* live tool, the offline builder and the API compute the same Scaling     *)
(* Frame (the box padded by 10% on each side, the scale, the offsets) and  *)
(* give every joint the same canonical (x_scaled, y_scaled).               *)
(***************************************************************************)
Sites == {"live", "offline", "api"}

\* the scaling frame a call site computes for the only hand of a frame
ScalingInfoAt(site, frame) ==
    IF site = "live" THEN calculate_edge_to_edge_scaling(AllLandmarks(frame))
    ELSE IF site = "offline" THEN OfflineScalingInfo(AllLandmarks(frame))
    ELSE ApiScalingInfo(frame[1])

C24_CallSitesAgree ==
    (Normalized /\ Len(normalizer.raw) = 1) =>
        \A s \in Sites :
            /\ ScalingInfoAt(s, normalizer.raw) = FrameOf(1)
            /\ SameCanonical(NormalizeAt(s, normalizer.raw), normalizer.hands)

(***************************************************************************)
(* Vocabulary of the API claims.                                           *)
(***************************************************************************)
Responded == pc = "responded"

\* the request carries no hand, a hand whose landmark count is not that of a
\* complete hand, or a coordinate that is not finite
Malformed(req) ==
    \/ req.hands = << >>
    \/ \E h \in 1..Len(req.hands) :
           \/ Len(req.hands[h].landmarks) # FullHand
           \/ \E k \in 1..Len(req.hands[h].landmarks) :
                  \E c \in Coords(req.hands[h].landmarks[k]) : c \in BadCoordinate

TypedFailure(resp) ==
    /\ resp.status = 200
    /\ resp.success = FALSE
    /\ resp.predicted_letter = NoString
    /\ resp.confidence = Whole(0)
    /\ resp.distance = Whole(SentinelDistance)

(***************************************************************************)
(* C23. POST /predict-letter answers a malformed request (no hands, a hand *)
(* without the full landmark count, a coordinate that is not finite) with  *)
(* a typed failure: success False, no letter, confidence 0.0, distance     *)
(* 999999.0; never with an exception or an HTTP 500.                       *)
(***************************************************************************)
C23_MalformedInputIsTypedFailure ==
    (Responded /\ Malformed(request)) => TypedFailure(response)

\* a request whose second hand carries an infinite coordinate was answered while
\* the library held a reference
C23_Witness ==
    /\ Responded
    /\ asl_alphabet_data # << >>
    /\ Len(request.hands) = 2
    /\ ~Malformed([request EXCEPT !.hands = SubSeq(@, 1, 1)])
    /\ \E k \in 1..Len(request.hands[2].landmarks) :
           RPosInf \in Coords(request.hands[2].landmarks[k])
    /\ response.message = "Invalid landmark coordinates detected"

(***************************************************************************)
(* C27. Every response of /predict-letter is of one of two shapes.  With   *)
(* success True: predicted_letter is a library letter in upper case, the   *)
(* distance is finite and not negative, and confidence is                  *)
(* max(0, min(1, 1 - distance / 1000)).  With success False: no letter,    *)
(* confidence 0.0, distance 999999.0.  No response carries inf or NaN.     *)
(***************************************************************************)
C27_ResponseShape ==
    Responded =>
        /\ response.confidence.t = "fin" /\ response.distance.t = "fin"
        /\ IF response.success
           THEN /\ \E i \in 1..Len(asl_alphabet_data) :
                       response.predicted_letter
                           = Some(upper(Chars(asl_alphabet_data[i].letter)))
                /\ response.distance.whole = 0 /\ response.distance.sign = 1
                /\ response.distance.num >= 0 /\ response.distance.den > 0
                /\ IF response.distance.num >= 1000000 * response.distance.den
                   THEN response.confidence = Whole(0)
                   ELSE IF response.distance.num = 0
                   THEN response.confidence = Whole(1)
                   ELSE /\ response.confidence.whole = 1
                        /\ response.confidence.sign = -1
                        /\ Dist(response.confidence.num, response.confidence.den)
                               = Dist(response.distance.num,
                                      response.distance.den * 1000000)
           ELSE /\ response.predicted_letter = NoString
                /\ response.confidence = Whole(0)
                /\ response.distance = Whole(SentinelDistance)

\* a letter was predicted at a distance above 1000, where the clamp acts
C27_Witness ==
    /\ Responded
    /\ response.success
    /\ response.distance.num > 1000000 * response.distance.den
    /\ response.confidence = Whole(0)

(***************************************************************************)
(* C28. LiveHandTracker is thread-safe: with update() and get_data()       *)
(* running in different threads, the dict get_data() returns is never a    *)
(* mix: its items are those of the tracker as constructed, or those one    *)
(* call of update() stored.                                                *)
(***************************************************************************)
Returned == reader.pc = GetDataSteps + 1

\* what get_data() returns once update() number u has completed; u = 0: before any
SnapshotAfter(u) ==
    IF u = 0
    THEN [timestamp |-> 0, image_width |-> 640, image_height |-> 480,
          hands_detected |-> 0, scaling_info |-> 0, hands |-> 0]
    ELSE [timestamp |-> u, image_width |-> 640, image_height |-> 480,
          hands_detected |-> HandsIn(u), scaling_info |-> u, hands |-> u]

C28_NoMixedSnapshot ==
    Returned => \E u \in 0..MaxUpdates : reader.data = SnapshotAfter(u)

(***************************************************************************)
(* C30. _detect_gestures reports a gesture only when its detector returned *)
(* a confidence above 0.6.  The gestures reported are among hello,         *)
(* thank_you, help, good and bad: yes, no, please, sorry and love are      *)
(* never reported.  A detector that raises is skipped: the call still      *)
(* returns, with every gesture whose detector passed.                      *)
(***************************************************************************)
Detected == pc = "detected"

Reported(gesture_name) ==
    \E i \in 1..Len(detected_gestures) : detected_gestures[i].gesture = gesture_name

AllGestures == {sign_gestures[i] : i \in 1..Len(sign_gestures)}

C30_GesturesAboveThreshold ==
    Detected =>
        /\ \A i \in 1..Len(detected_gestures) :
               /\ detected_gestures[i].confidence > 6
               /\ detected_gestures[i].gesture
                      \in {"hello", "thank_you", "help", "good", "bad"}
        /\ \A g \in {"yes", "no", "please", "sorry", "love"} : ~Reported(g)
        /\ \A g \in AllGestures :
               (~DetectorRaises(g, gesture_input)
                    /\ DetectorConfidence(g, gesture_input) > 6) => Reported(g)
        /\ \A g \in AllGestures : DetectorRaises(g, gesture_input) => ~Reported(g)

\* on a hand of 13 landmarks two detectors raised, the "yes" detector returned
\* 0.6 exactly, and hello and good were reported
C30_Witness ==
    /\ Detected
    /\ Len(gesture_input) = 13
    /\ DetectorRaises("no", gesture_input) /\ DetectorRaises("love", gesture_input)
    /\ DetectorConfidence("yes", gesture_input) = 6
    /\ Reported("hello") /\ Reported("good")

====
